---- MODULE Spec2Model ----
(***************************************************************************)
(* nanofuzz: the pattern compiler (pattern.c), the generator VM            *)
(* (generator.c) and the public facade with its prefetch worker (api.c).   *)
(*                                                                         *)
(* A pattern is a sequence of byte codes.  PatternFactory__new is a pure   *)
(* operator over it; the generator and the facade are state machines.      *)
(***************************************************************************)
EXTENDS Integers, Sequences, FiniteSets, TLC

NULL == 0

(***************************************************************************)
(* Characters.  Tab lists the printable ASCII characters from code 32 on;  *)
(* the two characters a TLA+ string cannot hold are replaced by a space.   *)
(***************************************************************************)
Tab == " ! #$%&'()*+,-./0123456789:;<=>?@ABCDEFGHIJKLMNOPQRSTUVWXYZ[\\]^_ abcdefghijklmnopqrstuvwxyz{|}~"

Ch(s, i) == SubSeq(s, i, i)

Ord(c) == 31 + CHOOSE i \in 1..Len(Tab) :
                  /\ Ch(Tab, i) = c
                  /\ \A j \in 1..(i-1) : Ch(Tab, j) # c

\* The pattern string s as a sequence of byte codes.
P(s) == [i \in 1..Len(s) |-> Ord(Ch(s, i))]

\* *(p_pattern + i - 1): the byte at 1-based index i, the terminator past the end.
At(pat, i) == IF i >= 1 /\ i <= Len(pat) THEN pat[i] ELSE 0

isdigit(c) == c >= 48 /\ c <= 57
isupper(c) == c >= 65 /\ c <= 90
isxdigit(c) == isdigit(c) \/ (c >= 65 /\ c <= 70) \/ (c >= 97 /\ c <= 102)
HexVal(c) == IF isdigit(c) THEN c - 48 ELSE IF c >= 97 THEN c - 87 ELSE c - 55

Min(a, b) == IF a < b THEN a ELSE b
Max(a, b) == IF a > b THEN a ELSE b

\* n copies of the byte sequence s, one after the other.
Repeat(s, n) == [k \in 1..(Max(n, 0) * Len(s)) |-> s[((k - 1) % Len(s)) + 1]]

\* The least element of a non-empty set of integers.
Least(S) == CHOOSE i \in S : \A j \in S : i <= j

\* The first of the backslashes that run up to just before position i, in a
\* scan that starts at `from'.
RunStart(pat, from, i) ==
    CHOOSE k \in from..i : /\ \A j \in k..(i - 1) : pat[j] = 92
                           /\ (k = from \/ pat[k - 1] # 92)

\* A scan from `from' that takes the character behind each backslash along
\* with it never stands on position i.
Stepped(pat, from, i) ==
    /\ i > from
    /\ pat[i - 1] = 92
    /\ (i - RunStart(pat, from, i)) % 2 = 1

(***************************************************************************)
(* Program constants.                                                      *)
(***************************************************************************)
FUZZ_MAX_NESTING_COMPLEXITY == 5
FUZZ_MAX_PATTERN_RANGE_FRAGMENTS == 16
FUZZ_MAX_SUBCONTEXTS == 32
FUZZ_MAX_STEPS == 32
FUZZ_MAX_PATTERN_LABEL_NAME_LENGTH == 9
UINT16_MAX == 65535

\* gen_pool_type
tiny == 1
small == 4
normal == 16

(***************************************************************************)
(* Pattern blocks.  Every block carries every payload field so that all    *)
(* blocks are records of one shape; `type' says which payload is in use.   *)
(***************************************************************************)
Count(s, b, h) == [single |-> s, base |-> b, high |-> h]

\* A fuzz_range_t; `negated' and `given' are history: whether the range was
\* written with a leading ^, and the fragments as written.
NoRange == [fragments |-> <<>>, amount |-> 0, negated |-> FALSE, given |-> <<>>]
NoLenopts == [type |-> "none", width |-> 0, add |-> 0]
NoRef == [label |-> <<>>, hash |-> <<0, 0, 0, 0>>, type |-> "none", lenopts |-> NoLenopts]

\* NEW_PATTERN_BLOCK: calloc'd, so every field is zero.
NEW_PATTERN_BLOCK ==
    [type |-> "none", data |-> FALSE, str |-> <<>>, num |-> 0, range |-> NoRange,
     steps |-> [i \in 0..(FUZZ_MAX_STEPS - 1) |-> 0], amount |-> 0, ref |-> NoRef,
     count |-> Count(0, 0, 0), freed |-> FALSE]

(***************************************************************************)
(* The parser context (fuzz_parser_ctx_t).  Blocks live in `heap' and are  *)
(* named by their index, which stands for the block's address; a list      *)
(* (List_t) is a sequence of such addresses, the first added first.        *)
(***************************************************************************)
__ParserContext__new ==
    [heap |-> <<>>,
     p_nest_tracker |-> [i \in 0..(FUZZ_MAX_NESTING_COMPLEXITY - 1) |-> NULL],
     nest_level |-> 0,
     subcontexts |-> <<>>,
     p_err |-> <<>>]

\* List__index_of: the 0-based position of the address in the list, -1 if absent.
List__index_of(seq, id) ==
    IF \E i \in 1..Len(seq) : seq[i] = id
    THEN (CHOOSE i \in 1..Len(seq) : seq[i] = id /\ \A j \in 1..(i-1) : seq[j] # id) - 1
    ELSE -1

\* List__add_at: the list with the address inserted at 0-based position loc.
List__add_at(seq, id, loc) ==
    SubSeq(seq, 1, loc) \o <<id>> \o SubSeq(seq, loc + 1, Len(seq))

\* The parser's loop state: the context, the read position p, the list under
\* construction, the branching flag and root, the saved level-0 subsequence
\* text, the block made by the current character, and how the parse stands.
ParseState(ctx, nest) ==
    [ctx |-> ctx, p |-> 1, seq |-> <<>>, nest |-> nest, is_branching |-> 0,
     root |-> NULL, lvl0 |-> <<>>, has_lvl0 |-> FALSE, new |-> NULL,
     status |-> "run"]

\* FUZZ_ERR_IN_CTX: record an error fragment and leave through __err_exit.
FUZZ_ERR_IN_CTX(st, msg) ==
    [st EXCEPT !.ctx.p_err = Append(@, [msg |-> msg, nest |-> st.ctx.nest_level,
                                        index |-> st.p - 1]),
               !.new = NULL, !.status = "err"]

\* A new block at a fresh address; the state with `new' naming it.
Alloc(st, blk) ==
    [st EXCEPT !.ctx.heap = Append(@, blk), !.new = Len(st.ctx.heap) + 1]

SetTracker(st, id) == [st EXCEPT !.ctx.p_nest_tracker[st.nest] = id]

__escape_to_value(esc0) ==
    LET esc == IF esc0 >= 65 /\ esc0 <= 90 THEN esc0 + 32 ELSE esc0
    IN  CASE esc = 97  -> 7
          [] esc = 98  -> 8
          [] esc = 116 -> 9
          [] esc = 110 -> 10
          [] esc = 118 -> 11
          [] esc = 102 -> 12
          [] esc = 114 -> 13
          [] esc = 115 -> 32
          [] OTHER     -> esc

\* The special characters without the closing brace.
special_charsButBrace == {124, 92, 91, 123, 40, 60, 62, 41, 93}

special_chars == {124, 92, 91, 123, 40, 60, 62, 41, 125, 93}

\* __seek_marker_end: the index of the closest unescaped target after start,
\* NULL when there is none or it directly follows start.
__seek_marker_end(pat, start, target) ==
    LET hits == {e \in (start + 1)..Len(pat) :
                    pat[e] = target /\ ~Stepped(pat, start + 1, e)}
    IN  IF hits = {} THEN NULL
        ELSE IF (Least(hits) - start) > 1 THEN Least(hits) ELSE NULL

RECURSIVE atoi(_)
\* The decimal value of a sequence of digits.
atoi(s) == IF s = <<>> THEN 0
           ELSE atoi(SubSeq(s, 1, Len(s) - 1)) * 10 + (s[Len(s)] - 48)

__get_valid_uint16(s) ==
    IF Len(s) > 5 THEN 0
    ELSE IF \E i \in 1..Len(s) : ~isdigit(s[i]) THEN 0
    ELSE LET val == atoi(s) % 65536
         IN  IF val < 1 THEN 0 ELSE val

\* The position of the first comma of s, 0 if it has none.
CommaAt(s) == IF \E i \in 1..Len(s) : s[i] = 44
              THEN CHOOSE i \in 1..Len(s) : s[i] = 44 /\ \A j \in 1..(i-1) : s[j] # 44
              ELSE 0

\* __bracket_parse_range: the count the repetition text sets on a block
\* whose count was cnt, and whether the text was accepted.
__bracket_parse_range(cnt, content, comma) ==
    IF comma
    THEN IF At(content, 1) = 44
         THEN LET high == __get_valid_uint16(SubSeq(content, 2, Len(content)))
              IN  IF high # 0 THEN [ok |-> TRUE, count |-> Count(0, 0, high)]
                  ELSE [ok |-> FALSE, count |-> Count(0, 0, cnt.high)]
         ELSE LET c == CommaAt(content)
                  token == SubSeq(content, 1, c - 1)
                  rest == SubSeq(content, c + 1, Len(content))
                  low == __get_valid_uint16(token)
                  lowok == (token[1] = 48 /\ low = 0) \/ low # 0
                  high == IF rest = <<>> THEN UINT16_MAX ELSE __get_valid_uint16(rest)
              IN  IF ~lowok THEN [ok |-> FALSE, count |-> Count(0, cnt.base, cnt.high)]
                  ELSE IF high = 0 THEN [ok |-> FALSE, count |-> Count(0, low, cnt.high)]
                  ELSE IF high <= low THEN [ok |-> FALSE, count |-> Count(0, low, high)]
                  ELSE [ok |-> TRUE, count |-> Count(0, low, high)]
    ELSE LET val == __get_valid_uint16(content)
         IN  IF val # 0 THEN [ok |-> TRUE, count |-> Count(1, val, cnt.high)]
             ELSE [ok |-> FALSE, count |-> Count(1, cnt.base, cnt.high)]

(***************************************************************************)
(* Range sets: __range_parse_token and __range_parse_range.                *)
(***************************************************************************)
\* strtok_r over the whole text: the non-empty pieces of s between delimiters.
Split(s, delim) ==
    LET starts == {i \in 1..Len(s) : s[i] # delim /\ (i = 1 \/ s[i - 1] = delim)}
        EndOf(i) == CHOOSE e \in i..Len(s) : /\ \A j \in i..e : s[j] # delim
                                             /\ (e = Len(s) \/ s[e + 1] = delim)
        Nth(k) == CHOOSE i \in starts : Cardinality({j \in starts : j < i}) = k - 1
    IN  [k \in 1..Cardinality(starts) |-> SubSeq(s, Nth(k), EndOf(Nth(k)))]

isspace(c) == c = 32 \/ (c >= 9 /\ c <= 13)

DigitOf(c, base) ==
    LET v == IF isdigit(c) THEN c - 48
             ELSE IF c >= 97 /\ c <= 122 THEN c - 87
             ELSE IF c >= 65 /\ c <= 90 THEN c - 55
             ELSE 99
    IN  IF v < base THEN v ELSE -1

RECURSIVE SkipSpace(_)
SkipSpace(s) == IF s # <<>> /\ isspace(s[1]) THEN SkipSpace(Tail(s)) ELSE s

RECURSIVE DigitRun(_, _)
\* The longest prefix of s made of digits of the base.
DigitRun(s, base) ==
    IF s # <<>> /\ DigitOf(s[1], base) >= 0
    THEN <<s[1]>> \o DigitRun(Tail(s), base) ELSE <<>>

RECURSIVE StripZeros(_)
StripZeros(s) == IF Len(s) > 1 /\ s[1] = 48 THEN StripZeros(Tail(s)) ELSE s

RECURSIVE LexLE(_, _)
\* Digit strings of equal length: a <= b.
LexLE(a, b) == IF a = <<>> THEN TRUE
               ELSE IF a[1] < b[1] THEN TRUE
               ELSE IF a[1] > b[1] THEN FALSE
               ELSE LexLE(Tail(a), Tail(b))

LONG_MAX_DEC == P("9223372036854775807")

\* Whether the digits (no leading zeros) exceed LONG_MAX in the base.
StrtolOverflows(d, base) ==
    CASE base = 16 -> Len(d) > 16 \/ (Len(d) = 16 /\ DigitOf(d[1], 16) >= 8)
      [] base = 8  -> Len(d) > 21
      [] OTHER     -> Len(d) > 19 \/ (Len(d) = 19 /\ ~LexLE(d, LONG_MAX_DEC))

RECURSIVE ValMod256(_, _, _)
ValMod256(d, base, acc) ==
    IF d = <<>> THEN acc
    ELSE ValMod256(Tail(d), base, (acc * base + DigitOf(d[1], base)) % 256)

\* strtol( s, NULL, base ) & 0xFF together with errno: leading blanks, an
\* optional sign, an optional 0x for base 16, then the digits of the base.
\* strtol from the digit run d on: the value as a byte, and ERANGE.
StrtolValue(d, base, neg) ==
    IF d # <<>> /\ StrtolOverflows(StripZeros(d), base)
    THEN [ok |-> FALSE, code |-> 255]
    ELSE [ok |-> TRUE,
          code |-> IF neg THEN (256 - ValMod256(d, base, 0)) % 256
                   ELSE ValMod256(d, base, 0)]

\* strtol behind the sign: an optional 0x in base 16, then the digits.
StrtolPrefix(s2, base) ==
    IF base = 16 /\ Len(s2) >= 3 /\ s2[1] = 48 /\ s2[2] \in {120, 88}
       /\ DigitOf(s2[3], 16) >= 0
    THEN SubSeq(s2, 3, Len(s2)) ELSE s2

\* strtol behind the white space: an optional sign.
StrtolSign(s1, base) ==
    StrtolValue(DigitRun(StrtolPrefix(IF s1 # <<>> /\ s1[1] \in {43, 45}
                                      THEN Tail(s1) ELSE s1, base), base),
                base, s1 # <<>> /\ s1[1] = 45)

\* (unsigned char)strtol( s, NULL, base ) with errno: [ok, code].
StrtolByte(s, base) == StrtolSign(SkipSpace(s), base)

\* The base a numeric escape letter selects, 0 for any other letter.
EscapeBase(k) ==
    CASE k \in {120, 88} -> 16
      [] k \in {100, 68} -> 10
      [] k \in {111, 79} -> 8
      [] OTHER -> 0

\* __range_parse_token: [ok, code].
__range_parse_token(tok) ==
    IF tok[1] = 92 /\ Len(tok) = 1 THEN [ok |-> TRUE, code |-> 45]
    ELSE IF tok = <<92, 44>> THEN [ok |-> TRUE, code |-> 44]
    ELSE IF tok[1] = 92
    THEN IF EscapeBase(tok[2]) # 0
         THEN StrtolByte(SubSeq(tok, 3, Len(tok)), EscapeBase(tok[2]))
         ELSE [ok |-> TRUE, code |-> __escape_to_value(tok[2]) % 256]
    ELSE IF Len(tok) = 1 THEN [ok |-> TRUE, code |-> tok[1]]
    ELSE [ok |-> FALSE, code |-> 0]

\* The initial syntax check: no grammatical character (, or -) first, last
\* or next to another one; a backslash takes the next character with it and
\* must have one.
RangeSyntaxOk(s) ==
    LET Grammar(i) == i >= 1 /\ ~Stepped(s, 1, i) /\ s[i] \in {44, 45}
    IN  /\ \A i \in 1..Len(s) :
              ~Stepped(s, 1, i) =>
                  /\ (s[i] = 92 => i < Len(s))
                  /\ ~(Grammar(i) /\ (i = 1 \/ Grammar(i - 1)))
        /\ ~Grammar(Len(s))

\* Every "\," of the text rewritten as "\x2C", scanning left to right.
EscapedCommas(s) ==
    LET Hit(i) == i >= 1 /\ i < Len(s) /\ s[i] = 92 /\ s[i + 1] = 44
        Piece(i) == IF Hit(i) THEN <<92, 120, 50, 67>> ELSE <<s[i]>>
        Before(i) == (i - 1) + 2 * Cardinality({h \in 1..(i - 1) : Hit(h)})
        From(k) == CHOOSE i \in 1..Len(s) :
                       ~Hit(i - 1) /\ Before(i) < k /\ k <= Before(i) + Len(Piece(i))
    IN  [k \in 1..(Len(s) + 2 * Cardinality({h \in 1..Len(s) : Hit(h)})) |->
            Piece(From(k))[k - Before(From(k))]]

\* The fragment of n tokens with the codes lo and hi: [ok, frag].
FragmentOf(n, lo, hi) ==
    IF ~lo.ok THEN [ok |-> FALSE, frag |-> Count(0, 0, 0)]
    ELSE IF n >= 2
    THEN IF ~hi.ok \/ ~(hi.code > lo.code) \/ n > 2
         THEN [ok |-> FALSE, frag |-> Count(0, lo.code, 0)]
         ELSE [ok |-> TRUE, frag |-> Count(0, lo.code, hi.code)]
    ELSE [ok |-> TRUE, frag |-> Count(1, lo.code, lo.code)]

FragmentOfTokens(toks) ==
    IF toks = <<>> THEN [ok |-> FALSE, frag |-> Count(0, 0, 0)]
    ELSE FragmentOf(Len(toks), __range_parse_token(toks[1]),
                    __range_parse_token(toks[Min(2, Len(toks))]))

\* One comma-separated item as a fragment: [ok, frag].
ParseFragment(item) == FragmentOfTokens(Split(item, 45))

Overlaps(shard, frag) ==
    \/ (shard.single # 0 /\ frag.single # 0 /\ shard.base = frag.base)
    \/ (shard.base <= frag.high /\ frag.base <= shard.high)

RECURSIVE ParseFragments(_, _)
\* The fragment f of the first item joins those before it unless it is bad
\* or overlaps one of them.
AddFragment(items, acc, f) ==
    IF ~f.ok \/ \E i \in 1..Len(acc) : Overlaps(acc[i], f.frag)
    THEN [ok |-> FALSE, frags |-> acc]
    ELSE ParseFragments(Tail(items), Append(acc, f.frag))

\* The fragments of the items in order, or failure: too many items, a bad
\* item, or an item that overlaps an earlier one.
ParseFragments(items, acc) ==
    IF items = <<>> THEN [ok |-> TRUE, frags |-> acc]
    ELSE IF Len(acc) + 1 > FUZZ_MAX_PATTERN_RANGE_FRAGMENTS
         THEN [ok |-> FALSE, frags |-> acc]
         ELSE AddFragment(items, acc, ParseFragment(items[1]))

sizeof_fuzz_repetition_t == 6

RECURSIVE MinIdx(_, _, _)
\* The inner loop of the selection sort: the first position from j on whose
\* base is below that at min_idx, repeatedly.
MinIdx(f, j, min_idx) ==
    IF j > Len(f) THEN min_idx
    ELSE MinIdx(f, j + 1, IF f[j].base < f[min_idx].base THEN j ELSE min_idx)

RECURSIVE SelectionSort(_, _)
SwapSort(f, i, m) == SelectionSort([f EXCEPT ![m] = f[i], ![i] = f[m]], i + 1)

SelectionSort(f, i) ==
    IF i >= Len(f) THEN f ELSE SwapSort(f, i, MinIdx(f, i + 1, i))

RECURSIVE Gaps(_, _, _)
\* The left-to-right slide over the ordered fragments: one gap in front of
\* every fragment that neither starts at 0 nor directly follows the previous
\* one.  `bad' is the bounds check on the inverse array.
Gaps(f, k, acc) ==
    IF k > Len(f) THEN [bad |-> FALSE, inv |-> acc]
    ELSE IF f[k].base = 0 THEN Gaps(f, k + 1, acc)
    ELSE IF k > 1 /\ f[k].base = f[k-1].high + 1 THEN Gaps(f, k + 1, acc)
    ELSE IF Len(acc) >= FUZZ_MAX_PATTERN_RANGE_FRAGMENTS * sizeof_fuzz_repetition_t
    THEN [bad |-> TRUE, inv |-> acc]
    ELSE LET nb == IF k > 1 THEN f[k-1].high + 1 ELSE 0
             nh == IF f[k].base > 1 THEN f[k].base - 1 ELSE 0
         IN  Gaps(f, k + 1, Append(acc, Count(IF nb = nh THEN 1 ELSE 0, nb, nh)))

\* The gap behind the last ordered fragment closes the inverse.
CloseGaps(last, g) ==
    IF g.bad THEN [ok |-> FALSE, inv |-> <<>>]
    ELSE IF last.high # 255
    THEN IF Len(g.inv) >= FUZZ_MAX_PATTERN_RANGE_FRAGMENTS * sizeof_fuzz_repetition_t
         THEN [ok |-> FALSE, inv |-> <<>>]
         ELSE [ok |-> TRUE,
               inv |-> Append(g.inv, Count(IF last.high + 1 = 255 THEN 1 ELSE 0,
                                           last.high + 1, 255))]
    ELSE [ok |-> TRUE, inv |-> g.inv]

NegateOrdered(f) == CloseGaps(f[Len(f)], Gaps(f, 1, <<>>))

\* The negation of the fragments against 0..255: [ok, inv].
Negate(frags) == NegateOrdered(SelectionSort(frags, 1))

BadRange == [ok |-> FALSE, range |-> NoRange]

\* The range of a negation: the fragments array has
\* FUZZ_MAX_PATTERN_RANGE_FRAGMENTS cells; `amount' is the count the code
\* stores, which can be one more.
NegatedRange(given, n) ==
    IF ~n.ok \/ Len(n.inv) <= 0 THEN BadRange
    ELSE [ok |-> TRUE,
          range |-> [fragments |-> SubSeq(n.inv, 1, Min(Len(n.inv),
                                              FUZZ_MAX_PATTERN_RANGE_FRAGMENTS)),
                     amount |-> Len(n.inv), negated |-> TRUE, given |-> given]]

RangeOfFragments(negated, fr) ==
    IF ~fr.ok THEN BadRange
    ELSE IF negated THEN NegatedRange(fr.frags, Negate(fr.frags))
    ELSE [ok |-> TRUE,
          range |-> [fragments |-> fr.frags, amount |-> Len(fr.frags),
                     negated |-> FALSE, given |-> fr.frags]]

RangeOfContent(negated, content1) ==
    IF content1 = <<>> THEN BadRange
    ELSE IF ~RangeSyntaxOk(content1) THEN BadRange
    ELSE RangeOfFragments(negated,
                          ParseFragments(Split(EscapedCommas(content1), 44), <<>>))

\* __range_parse_range on the text between the brackets: [ok, range].
__range_parse_range(content0) ==
    IF content0 = <<>> THEN BadRange
    ELSE RangeOfContent(At(content0, 1) = 94,
                        IF At(content0, 1) = 94 THEN Tail(content0) ELSE content0)

(***************************************************************************)
(* Variable names: the djb2 hash as an unsigned long, kept as four 16-bit  *)
(* limbs, least significant first, so that it wraps at 2^64 as in C.       *)
(***************************************************************************)
HashStep(h, c) ==
    LET t1 == h[1] * 33 + c
        t2 == h[2] * 33 + (t1 \div 65536)
        t3 == h[3] * 33 + (t2 \div 65536)
        t4 == h[4] * 33 + (t3 \div 65536)
    IN  <<t1 % 65536, t2 % 65536, t3 % 65536, t4 % 65536>>

RECURSIVE djb2From(_, _)
djb2From(h, label) ==
    IF label = <<>> THEN h ELSE djb2From(HashStep(h, label[1]), Tail(label))

djb2(label) == djb2From(<<5381, 0, 0, 0>>, label)

(***************************************************************************)
(* __parse_pattern, one operator per case of its switch.  Each takes the   *)
(* pattern text and the loop state at the character under p and gives the  *)
(* state at the break: p on the last character consumed, `new' the block   *)
(* to add (p_new_block) or NULL.                                           *)
(***************************************************************************)
\* A C string held in a char buffer: the bytes before the first NUL.
RECURSIVE CStr(_)
CStr(b) == IF b = <<>> \/ b[1] = 0 THEN <<>> ELSE <<b[1]>> \o CStr(Tail(b))

StringBlock(s) ==
    [NEW_PATTERN_BLOCK EXCEPT !.type = "string", !.data = TRUE, !.str = CStr(s),
                              !.count = Count(1, 1, 1)]

\* A new block that also becomes the tracked block of the nest level.
NewTracked(st, blk) ==
    LET a == Alloc(st, blk) IN SetTracker(a, a.new)

Tracked(st) == st.ctx.p_nest_tracker[st.nest]

ParseEscape(pat, st) ==
    LET esc == At(pat, st.p + 1)
    IN  IF esc = 0
        THEN FUZZ_ERR_IN_CTX(st, "The escaped character could not be understood")
        ELSE IF esc \in {120, 88}
        THEN IF ~isxdigit(At(pat, st.p + 2)) \/ ~isxdigit(At(pat, st.p + 3))
             THEN FUZZ_ERR_IN_CTX(st, "Escaped hexadecimal expects a two-letter hex code")
             ELSE LET val == HexVal(At(pat, st.p + 2)) * 16 + HexVal(At(pat, st.p + 3))
                  IN  [NewTracked(st, StringBlock(<<val>>)) EXCEPT !.p = st.p + 3]
        ELSE [NewTracked(st, StringBlock(<<__escape_to_value(esc)>>)) EXCEPT !.p = st.p + 1]

JmpBlock ==
    [NEW_PATTERN_BLOCK EXCEPT !.type = "branch_jmp", !.data = TRUE,
                              !.count = Count(1, 1, 1)]

RootBlock ==
    [NEW_PATTERN_BLOCK EXCEPT !.type = "branch_root", !.data = TRUE,
                              !.count = Count(1, 1, 1), !.amount = 0, !.steps[0] = 1]

ParseBranch(pat, st) ==
    LET p_prev == Tracked(st)
    IN  IF p_prev = NULL
        THEN FUZZ_ERR_IN_CTX(st, "Branch mechanisms must follow a valid string or other pattern")
        ELSE IF st.ctx.heap[p_prev].freed
        THEN [st EXCEPT !.status = "ub"]
        ELSE IF st.ctx.heap[p_prev].type \in {"branch_jmp", "branch_root"}
        THEN FUZZ_ERR_IN_CTX(st, "Branch mechanisms cannot be placed sequentially")
        ELSE IF st.is_branching = 0
        THEN LET a == Alloc(st, RootBlock)
                 loc == List__index_of(st.seq, p_prev)
             IN  IF loc < 0
                 THEN FUZZ_ERR_IN_CTX(a, "Failed to add a branch root to the node sequence")
                 ELSE [Alloc([a EXCEPT !.seq = List__add_at(st.seq, a.new, loc),
                                       !.root = a.new], JmpBlock)
                          EXCEPT !.is_branching = 3]
        ELSE [Alloc(st, JmpBlock) EXCEPT !.is_branching = 3]

ParseRange(pat, st) ==
    LET end == __seek_marker_end(pat, st.p, 93)
    IN  IF end = NULL
        THEN FUZZ_ERR_IN_CTX(st, "Pattern contains unclosed or empty range")
        ELSE LET r == __range_parse_range(SubSeq(pat, st.p + 1, end - 1))
                 blk == [NEW_PATTERN_BLOCK EXCEPT !.type = "range", !.data = TRUE,
                                                  !.range = r.range,
                                                  !.count = Count(1, 1, 1)]
             IN  IF ~r.ok
                 THEN FUZZ_ERR_IN_CTX(st, "Range statement syntax is not valid")
                 ELSE [NewTracked(st, blk) EXCEPT !.p = end]

ParseRepetition(pat, st) ==
    LET trk == Tracked(st)
        end == __seek_marker_end(pat, st.p, 125)
        content == SubSeq(pat, st.p + 1, end - 1)
        commas == Cardinality({i \in 1..Len(content) : content[i] = 44})
    IN  IF trk = NULL
        THEN FUZZ_ERR_IN_CTX(st, "The repetition statement must follow a valid string or other pattern")
        ELSE IF end = NULL
        THEN FUZZ_ERR_IN_CTX(st, "Pattern contains unclosed or empty repetition statement")
        ELSE IF commas > 1 \/ \E i \in 1..Len(content) :
                                   content[i] # 44 /\ ~isdigit(content[i])
        THEN FUZZ_ERR_IN_CTX(st, "Repetition statements can only contain digits and a single comma")
        ELSE IF Len(content) = 1 /\ commas = 1
        THEN FUZZ_ERR_IN_CTX(st, "Repetition statements cannot consist of a single comma only")
        ELSE IF st.ctx.heap[trk].freed
        THEN [st EXCEPT !.status = "ub"]
        ELSE LET r == __bracket_parse_range(st.ctx.heap[trk].count, content, commas = 1)
             IN  IF ~r.ok
                 THEN FUZZ_ERR_IN_CTX(st, "Repetition statement has an invalid range")
                 ELSE [SetTracker([st EXCEPT !.ctx.heap[trk].count = r.count], NULL)
                          EXCEPT !.p = end]

\* Where the scan of a static string leaves p: on the terminator, or one
\* before the first special character.
ScanStatic(pat, start) ==
    LET specials == {i \in start..Len(pat) : pat[i] \in special_chars}
    IN  IF specials = {} THEN Max(start, Len(pat) + 1) ELSE Least(specials) - 1

ParseStatic(pat, st) ==
    LET start == st.p
        p0 == ScanStatic(pat, start)
        p1 == IF (p0 - start) > 0 /\ p0 <= Len(pat) /\ At(pat, p0 + 1) \in {123, 124}
              THEN p0 - 1 ELSE p0
        z == SubSeq(pat, start, Min(p1, Len(pat)))
        snip == Len(z) > 1 /\ st.is_branching = 2
    IN  [NewTracked(st, StringBlock(IF snip THEN <<pat[start]>> ELSE z))
            EXCEPT !.p = IF snip THEN start ELSE p1]

RECURSIVE ParsePattern(_, _)
RECURSIVE PatternFactory__new(_)

\* The nesting count of the look-ahead once it has passed position i.
Depth(pat, from, pres, i) ==
    pres + Cardinality({j \in from..i : pat[j] = 40 /\ ~Stepped(pat, from, j)})
         - Cardinality({j \in from..i : pat[j] = 41 /\ ~Stepped(pat, from, j)})

\* The look-ahead for the closing parenthesis of a subsequence: where the
\* scan stops, the nesting count there, and whether it went too deep.
SeekClose(pat, from, pres, nest) ==
    LET stops == {i \in from..Len(pat) :
                     /\ pat[i] \in {40, 41}
                     /\ ~Stepped(pat, from, i)
                     /\ \/ Depth(pat, from, pres, i) > FUZZ_MAX_NESTING_COMPLEXITY
                        \/ Depth(pat, from, pres, i) <= nest}
    IN  IF stops = {}
        THEN [err |-> FALSE, pres |-> Depth(pat, from, pres, Len(pat)), i |-> Len(pat) + 1]
        ELSE IF Depth(pat, from, pres, Least(stops)) > FUZZ_MAX_NESTING_COMPLEXITY
        THEN [err |-> TRUE, pres |-> Depth(pat, from, pres, Least(stops)),
              i |-> Least(stops)]
        ELSE [err |-> FALSE, pres |-> Depth(pat, from, pres, Least(stops)),
              i |-> Least(stops) + 1]

SubBlock(lvl) ==
    [NEW_PATTERN_BLOCK EXCEPT !.type = "sub", !.data = TRUE, !.num = lvl,
                              !.count = Count(1, 1, 1)]

RetBlock(rev_size) ==
    [NEW_PATTERN_BLOCK EXCEPT !.type = "ret", !.data = TRUE, !.num = rev_size]

\* case '(' from the recursive parse on: the blocks of the inside join the
\* list behind the sub block b has appended, and a ret block closes them.
SubClose(c, pre, p_seek) ==
    IF pre.status \in {"crash", "ub"}
    THEN [c EXCEPT !.status = pre.status]
    ELSE IF pre.status = "err" \/ pre.seq = <<>>
    THEN FUZZ_ERR_IN_CTX(c, "Invalid, empty, or NULL branch inside Subsequence statement")
    ELSE IF c.ctx.heap[pre.seq[Len(pre.seq)]].type \in {"branch_root", "branch_jmp"}
    THEN FUZZ_ERR_IN_CTX(c, "Subsequence statements cannot end with branch mechanisms")
    ELSE [Alloc([c EXCEPT !.seq = @ \o pre.seq], RetBlock(Len(pre.seq)))
             EXCEPT !.p = p_seek]

SubReturn(b, pre, p_seek) ==
    SubClose([b EXCEPT !.ctx = [pre.ctx EXCEPT !.nest_level = @ - 1]], pre, p_seek)

SubInside(b, p_sub, p_seek) == SubReturn(b, ParsePattern(b.ctx, p_sub), p_seek)

\* The sub block joins the list and the nest level goes up.
SubOpen(a, nest, p_sub) ==
    [a EXCEPT !.seq = Append(@, a.new), !.new = NULL,
              !.lvl0 = IF nest = 0 THEN p_sub ELSE <<>>,
              !.has_lvl0 = (nest = 0),
              !.ctx.nest_level = @ + 1]

SubSeek(pat, st, sk) ==
    IF (st.nest + 1) >= FUZZ_MAX_NESTING_COMPLEXITY \/ sk.err
    THEN FUZZ_ERR_IN_CTX(st, "Subsequence statements can only be nested up to 5 times")
    ELSE IF sk.pres > st.nest
    THEN FUZZ_ERR_IN_CTX(st, "Subsequence statements are not closed properly")
    ELSE SubInside(SubOpen(NewTracked(st, SubBlock(st.nest)), st.nest,
                           SubSeq(pat, st.p + 1, sk.i - 2)),
                   SubSeq(pat, st.p + 1, sk.i - 2), sk.i - 1)

\* case '('
ParseSub(pat, st) == SubSeek(pat, st, SeekClose(pat, st.p + 1, st.nest + 1, st.nest))

\* The length options of a '<#...>' reference: [ok, lenopts].
ParseLenopts(opts) ==
    LET t == opts[1]
        type == CASE t = 103 -> "raw_big"
                  [] t = 108 -> "raw_little"
                  [] t = 98  -> "binary"
                  [] t = 100 -> "decimal"
                  [] t = 120 -> "hexadecimal"
                  [] t = 88  -> "hex_upper"
                  [] t = 111 -> "octal"
                  [] OTHER   -> "none"
        two == isdigit(At(opts, 3))
        width == IF two THEN (opts[2] - 48) * 10 + (opts[3] - 48) ELSE opts[2] - 48
        width_problem ==
            CASE type \in {"raw_big", "raw_little"}    -> width = 0 \/ width > 8
              [] type \in {"hexadecimal", "hex_upper"} -> width > 16
              [] type = "binary"                       -> width = 0 \/ width > 64
              [] type = "decimal"                      -> width > 20
              [] OTHER                                 -> width > 22
        rest == SubSeq(opts, IF two THEN 4 ELSE 3, Len(opts))
        neg == At(rest, 2) = 45
        digs == SubSeq(rest, IF neg THEN 3 ELSE 2, Len(rest))
        sig == StripZeros(digs)
        range_err == Len(sig) > 19
                     \/ (Len(sig) = 19 /\ ~LexLE(sig, IF neg THEN P("9223372036854775808")
                                                       ELSE LONG_MAX_DEC))
        bad == [ok |-> FALSE, lenopts |-> NoLenopts]
    IN  IF type = "none" \/ ~isdigit(At(opts, 2)) THEN bad
        ELSE IF width_problem THEN bad
        ELSE IF rest = <<>>
        THEN [ok |-> TRUE, lenopts |-> [type |-> type, width |-> width, add |-> 0]]
        ELSE IF rest[1] # 43 \/ Len(rest) = 1 THEN bad
        ELSE IF \E i \in 1..Len(digs) : ~isdigit(digs[i]) THEN bad
        ELSE IF range_err THEN bad
        ELSE [ok |-> TRUE,
              lenopts |-> [type |-> type, width |-> width,
                           add |-> IF neg THEN 0 - atoi(digs) ELSE atoi(digs)]]

\* __var_ref_error: the saved level-0 text is dropped and the error recorded.
VAR_ERR(st, msg) ==
    FUZZ_ERR_IN_CTX([st EXCEPT !.lvl0 = <<>>, !.has_lvl0 = FALSE], msg)

RefBlock(label, hash, type, lenopts) ==
    [NEW_PATTERN_BLOCK EXCEPT !.type = "reference", !.data = TRUE,
                              !.ref = [label |-> label, hash |-> hash, type |-> type,
                                       lenopts |-> lenopts],
                              !.count = Count(1, 1, 1)]

\* A declaration that takes the body and the ret of the subsequence from
\* the list and leaves its sub block there.
DelKeepsSub(num) == num + 1

\* How many blocks a declaration takes from the end of the list: those the
\* ret block counts, the ret itself and the sub before them.
Del(num) == num + 2

\* case '$': the subsequence just parsed leaves the list and becomes a
\* sub-factory with a generator context of its own.
ParseDeclaration(st, hash, label) ==
    LET trk == Tracked(st)
        heap == st.ctx.heap
        p_ret == IF st.seq = <<>> THEN NULL ELSE st.seq[Len(st.seq)]
        del == Del(heap[p_ret].num)
        keep == Max(0, Len(st.seq) - del)
        dropped == {st.seq[i] : i \in (keep + 1)..Len(st.seq)}
        ff == PatternFactory__new(st.lvl0)
        p_gctx == [type |-> small, p_factory |-> ff.factory]
    IN  IF st.nest # 0
        THEN VAR_ERR(st, "Declarations cannot be used within Subsequence operators")
        ELSE IF trk = NULL \/ p_ret = NULL
        THEN VAR_ERR(st, "Declarations can only be applied to subsequence mechanisms")
        ELSE IF heap[trk].type # "sub" \/ ~heap[p_ret].data \/ heap[p_ret].type # "ret"
        THEN VAR_ERR(st, "Declarations can only be applied to subsequence mechanisms")
        ELSE IF ~st.has_lvl0
        THEN VAR_ERR(st, "Declarations cannot be defined within subsequence mechanisms")
        ELSE IF \E i \in 1..Len(st.ctx.subcontexts) : st.ctx.subcontexts[i].hash = hash
        THEN VAR_ERR(st, "Variable declarations must be named uniquely")
        ELSE IF Len(st.ctx.subcontexts) >= FUZZ_MAX_SUBCONTEXTS
        THEN VAR_ERR(st, "Variable declarations exceed the maximum limit of 32")
        ELSE IF ff.status \in {"crash", "ub"}
        THEN [st EXCEPT !.status = ff.status]
        ELSE IF ff.status = "err"
        THEN VAR_ERR(st, "Error in variable declaration statement")
        ELSE [st EXCEPT
                !.ctx.heap = [h \in DOMAIN heap |->
                                 IF h \in dropped THEN [heap[h] EXCEPT !.freed = TRUE]
                                 ELSE heap[h]],
                !.seq = SubSeq(st.seq, 1, keep),
                !.ctx.subcontexts = Append(@, [hash |-> hash, label |-> label,
                                               p_gen_ctx |-> p_gctx]),
                !.ctx.p_nest_tracker[st.nest] = NULL,
                !.lvl0 = <<>>, !.has_lvl0 = FALSE, !.new = NULL]

\* Where the scan for the ':' of a length reference stops: on the first ':'
\* from start on, or one before the closing bracket.
ColonAt(pat, start, end) ==
    IF \E i \in start..(end - 2) : pat[i] = 58
    THEN CHOOSE i \in start..(end - 2) :
             pat[i] = 58 /\ \A j \in start..(i - 1) : pat[j] # 58
    ELSE end - 1

ParseReference(pat, st) ==
    LET end == __seek_marker_end(pat, st.p, 62)
        start == st.p + 1
        op == At(pat, start)
        n == end - 1 - start
        tmpstart == IF op = 35 THEN ColonAt(pat, start, end) ELSE start
        namelen == end - tmpstart - 1
        p_varname == SubSeq(pat, tmpstart + 1, end - 1)
        hash == djb2(p_varname)
        label == SubSeq(p_varname, 1,
                        Min(Len(p_varname), FUZZ_MAX_PATTERN_LABEL_NAME_LENGTH - 1))
        declared == \E i \in 1..Len(st.ctx.subcontexts) : st.ctx.subcontexts[i].hash = hash
        opts_length == tmpstart - 1 - start
        lo == ParseLenopts(SubSeq(pat, start + 1, start + opts_length))
    IN  IF end = NULL
        THEN FUZZ_ERR_IN_CTX(st, "Pattern contains unclosed or empty variable statement")
        ELSE IF n > (FUZZ_MAX_PATTERN_LABEL_NAME_LENGTH - 1) /\ op # 35
        THEN FUZZ_ERR_IN_CTX(st, "Variable names cannot be longer than 8 characters")
        ELSE IF n > (FUZZ_MAX_PATTERN_LABEL_NAME_LENGTH - 1 + 25) /\ op = 35
        THEN FUZZ_ERR_IN_CTX(st, "Variable length references must adhere to proper syntax")
        ELSE IF op = 35 /\ ((tmpstart - start) < 2 \/ ~isdigit(At(pat, start + 2))
                            \/ (end - 1) = tmpstart)
        THEN FUZZ_ERR_IN_CTX(st, "Variable length references must at least have a type and width")
        ELSE IF 0 >= namelen
        THEN FUZZ_ERR_IN_CTX(st, "Variable names must be at least 1 character in length")
        ELSE IF \E i \in 1..Len(p_varname) : ~isdigit(p_varname[i]) /\ ~isupper(p_varname[i])
        THEN FUZZ_ERR_IN_CTX(st, "Variable names must be upper-case or numeric only")
        ELSE IF op = 36
        THEN LET d == ParseDeclaration(st, hash, label)
             IN  IF d.status = "run" THEN [d EXCEPT !.p = end] ELSE d
        ELSE IF op \in {64, 37}
        THEN IF ~declared
             THEN VAR_ERR(st, "Variable reference uses an undeclared variable name")
             ELSE [NewTracked(st, RefBlock(label, hash,
                                  IF op = 64 THEN "ref_reference" ELSE "ref_shuffle",
                                  NoLenopts))
                      EXCEPT !.p = end]
        ELSE IF op = 35
        THEN IF 2 > opts_length
             THEN VAR_ERR(st, "Variable length reference does not include valid options")
             ELSE IF ~lo.ok
             THEN VAR_ERR(st, "Variable length reference options are not valid")
             ELSE [NewTracked(st, RefBlock(label, hash, "ref_count", lo.lenopts))
                      EXCEPT !.p = end]
        ELSE VAR_ERR(st, "Unrecognized variable statement type")

\* __branch_write_end: back-fill the jmp blocks of the branch with their
\* distance to the end of the list as it stands: [ok, heap].
__branch_write_end(st, is_post_run) ==
    LET heap == st.ctx.heap
        seq == st.seq
        root_index == List__index_of(seq, st.root)
        p_track_block == st.ctx.p_nest_tracker[st.ctx.nest_level]
        t == List__index_of(seq, p_track_block)
        last_pattern_block == IF t = -1 THEN Len(seq) - 1 ELSE t
        root == heap[st.root]
        JmpOf(i) == root_index + (root.steps[i] - 1)
        fail == [ok |-> FALSE, heap |-> heap]
    IN  IF st.root = NULL THEN fail
        ELSE IF root_index = -1 THEN fail
        ELSE IF last_pattern_block <= root_index THEN fail
        ELSE IF \E i \in 1..root.amount :
                    \/ root.steps[i] = 0
                    \/ JmpOf(i) >= Len(seq)
                    \/ heap[seq[JmpOf(i) + 1]].type # "branch_jmp"
        THEN fail
        ELSE [ok |-> TRUE,
              heap |-> [h \in DOMAIN heap |->
                  IF \E i \in 1..root.amount : seq[JmpOf(i) + 1] = h
                  THEN LET i == CHOOSE i \in 1..root.amount : seq[JmpOf(i) + 1] = h
                       IN  [heap[h] EXCEPT !.num = (Len(seq) - 1) - JmpOf(i) + is_post_run]
                  ELSE heap[h]]]

\* The code after the switch: the new block joins the list, and a branch in
\* progress records its arm or closes.
ParseTail(st) ==
    IF st.new = NULL THEN st
    ELSE LET s1 == [st EXCEPT !.seq = Append(@, st.new)]
             root == st.ctx.heap[st.root]
             amount == root.amount + 1
             track_index == List__index_of(s1.seq, Tracked(st))
             root_index == List__index_of(s1.seq, st.root)
             w == __branch_write_end(s1, 0)
         IN  IF st.is_branching = 2
             THEN IF amount > FUZZ_MAX_STEPS
                  THEN FUZZ_ERR_IN_CTX(st, "Branches cannot exceed the precompiled limit")
                  ELSE IF track_index <= root_index \/ root_index = -1
                  THEN FUZZ_ERR_IN_CTX(st, "Branch encountered an unexpected indexing problem")
                  ELSE IF amount >= FUZZ_MAX_STEPS
                  THEN [s1 EXCEPT !.status = "ub"]
                  ELSE [s1 EXCEPT !.ctx.heap[st.root].amount = amount,
                                  !.ctx.heap[st.root].steps[amount] =
                                      (track_index - root_index) % 65536,
                                  !.is_branching = 1]
             ELSE IF st.is_branching = 1
             THEN IF ~w.ok
                  THEN FUZZ_ERR_IN_CTX(st, "Problem closing branch mechanism")
                  ELSE [s1 EXCEPT !.ctx.heap = w.heap, !.is_branching = 0]
             ELSE [s1 EXCEPT !.is_branching = IF @ > 0 THEN @ - 1 ELSE 0]

\* The end of the parse once an open branch, if any, is closed.
Finish(s1) ==
    IF s1.seq = <<>>
    THEN [s1 EXCEPT !.status = "crash"]
    ELSE IF s1.ctx.heap[s1.seq[Len(s1.seq)]].type \in {"branch_root", "branch_jmp"}
    THEN FUZZ_ERR_IN_CTX(s1, "The input pattern cannot end with branch mechanisms")
    ELSE [s1 EXCEPT !.status = "done"]

PostBranch(st, w) ==
    IF ~w.ok
    THEN [FUZZ_ERR_IN_CTX(st, "Problem closing branch mechanism") EXCEPT !.new = st.new]
    ELSE Finish([st EXCEPT !.ctx.heap = w.heap, !.is_branching = 0])

\* The code after the loop.
PostLoop(st) ==
    IF st.is_branching > 0 THEN PostBranch(st, __branch_write_end(st, 1)) ELSE Finish(st)

\* The switch on the character under the cursor.
ParseBlock(pat, s0) ==
    LET c == pat[s0.p]
    IN  CASE c \in {62, 93, 125, 41} ->
                 FUZZ_ERR_IN_CTX(s0, "Unexpected closing character")
          [] c = 92  -> ParseEscape(pat, s0)
          [] c = 124 -> ParseBranch(pat, s0)
          [] c = 60  -> ParseReference(pat, s0)
          [] c = 91  -> ParseRange(pat, s0)
          [] c = 123 -> ParseRepetition(pat, s0)
          [] c = 40  -> ParseSub(pat, s0)
          [] OTHER   -> ParseStatic(pat, s0)

AfterSwitch(s1) == IF s1.status = "run" THEN ParseTail(s1) ELSE s1

Advance(s2) == IF s2.status = "run" THEN [s2 EXCEPT !.p = @ + 1] ELSE s2

RECURSIVE ParseLoop(_, _)
\* The loop over the pattern, one pass per block.
ParseLoop(pat, st) ==
    IF st.status # "run" THEN st
    ELSE IF st.p > Len(pat) THEN PostLoop(st)
    ELSE ParseLoop(pat, Advance(AfterSwitch(ParseBlock(pat, [st EXCEPT !.new = NULL]))))

Outcome(st) == [ctx |-> st.ctx, seq |-> st.seq, status |-> st.status]

\* __parse_pattern: the context after the parse, the list, and how it ended:
\* "done" with a list, "err" with NULL and an error recorded, "crash" where
\* the code dereferences the last block of an empty list, "ub" where it
\* writes or reads outside an object.
ParsePattern(ctx, pat) == Outcome(ParseLoop(pat, ParseState(ctx, ctx.nest_level)))

EndBlock == [NEW_PATTERN_BLOCK EXCEPT !.type = "end"]

\* __compress_List_to_factory: the blocks of the list as one array with an
\* 'end' block after them.
__compress_List_to_factory(heap, seq) ==
    [node_seq |-> [i \in 1..Len(seq) |-> heap[seq[i]]] \o <<EndBlock>>,
     count |-> Len(seq) + 1,
     max_output_size |-> 0,
     subcontexts |-> <<>>]

NoFactory == [node_seq |-> <<>>, count |-> 0, max_output_size |-> 0, subcontexts |-> <<>>]

\* PatternFactory__new: [status, factory, p_err]; the factory is NULL unless
\* the status is "ok".
PatternFactory__new(pat) ==
    LET r == ParsePattern(__ParserContext__new, pat)
    IN  IF r.status = "done"
        THEN [status |-> "ok",
              factory |-> [__compress_List_to_factory(r.ctx.heap, r.seq)
                              EXCEPT !.subcontexts = r.ctx.subcontexts],
              p_err |-> <<>>]
        ELSE [status |-> r.status, factory |-> NoFactory, p_err |-> r.ctx.p_err]

(***************************************************************************)
(* Length references: the value written by a ref_count block.  An unsigned *)
(* long long is kept as its eight bytes, least significant first, which is *)
(* also how it lies in memory; the byte at position i has weight 256^(i-1).*)
(***************************************************************************)
U64Zero == [i \in 1..8 |-> 0]

\* The unsigned long long of an int n, -2^31 < n < 2^31, sign-extended.
U64(n) ==
    IF n >= 0
    THEN [i \in 1..8 |-> CASE i = 1 -> n % 256
                           [] i = 2 -> (n \div 256) % 256
                           [] i = 3 -> (n \div 65536) % 256
                           [] i = 4 -> (n \div 16777216) % 256
                           [] OTHER -> 0]
    ELSE LET m == (n + 2147483647) + 1
         IN  [i \in 1..8 |-> CASE i = 1 -> m % 256
                               [] i = 2 -> (m \div 256) % 256
                               [] i = 3 -> (m \div 65536) % 256
                               [] i = 4 -> ((m \div 16777216) % 256) + 128
                               [] OTHER -> 255]

RECURSIVE DivFrom(_, _, _, _)
\* Long division of the bytes by a small d from byte i down, with carry r.
DivFrom(b, d, i, r) ==
    IF i < 1 THEN [q |-> b, r |-> r]
    ELSE LET cur == r * 256 + b[i]
         IN  DivFrom([b EXCEPT ![i] = cur \div d], d, i - 1, cur % d)

DivSmall(b, d) == DivFrom(b, d, 8, 0)

RECURSIVE RadixDigits(_, _)
\* The digits of the value in the radix, most significant first, none for 0.
RadixDigits(b, radix) ==
    IF b = U64Zero THEN <<>>
    ELSE LET dv == DivSmall(b, radix) IN Append(RadixDigits(dv.q, radix), dv.r)

DigitChar(d, upper) == IF d < 10 THEN 48 + d ELSE (IF upper THEN 55 ELSE 87) + d

\* The two's complement of the value.
U64Neg(b) ==
    LET inv == [i \in 1..8 |-> 255 - b[i]]
        Carry(i) == \A j \in 1..(i - 1) : inv[j] = 255
    IN  [i \in 1..8 |-> IF Carry(i) THEN (inv[i] + 1) % 256 ELSE inv[i]]

\* The value modulo 2^k.
ModPow2(b, k) ==
    [i \in 1..8 |-> IF 8 * i <= k THEN b[i]
                    ELSE IF 8 * (i - 1) >= k THEN 0
                    ELSE b[i] % (2 ^ (k - 8 * (i - 1)))]

\* topow( a, b )
topow(a, b) == a ^ (IF b < 1 THEN 1 ELSE b)

\* printf of the value with "%0<width>ll<c>" (width 0: "%ll<c>"): c = 'd'
\* prints it as a signed long long, the others as unsigned.
Printf(b, width, base_code) ==
    LET negative == base_code = 100 /\ b[8] >= 128
        mag == IF negative THEN U64Neg(b) ELSE b
        radix == CASE base_code = 100 -> 10 [] base_code = 111 -> 8 [] OTHER -> 16
        raw == RadixDigits(mag, radix)
        digs == IF raw = <<>> THEN <<0>> ELSE raw
        chars == [i \in 1..Len(digs) |-> DigitChar(digs[i], base_code = 88)]
        sign == IF negative THEN <<45>> ELSE <<>>
        pad == Max(0, width - Len(chars) - Len(sign))
    IN  sign \o [i \in 1..pad |-> 48] \o chars

\* The bytes a ref_count block writes once for the cached length.
FormatLen(lenopts, length) ==
    LET len0 == U64(length + lenopts.add)
        width == lenopts.width
        wm == CASE lenopts.type = "binary" -> 1
                [] lenopts.type = "decimal" -> 10
                [] lenopts.type \in {"hexadecimal", "hex_upper"} -> 4
                [] OTHER -> 3
        base_code == CASE lenopts.type = "decimal" -> 100
                       [] lenopts.type = "hexadecimal" -> 120
                       [] lenopts.type = "hex_upper" -> 88
                       [] OTHER -> 111
        len == IF width > 0 /\ (wm * width) < 64
               THEN IF lenopts.type = "decimal"
                    THEN U64(DivSmall(len0, topow(10, width)).r)
                    ELSE ModPow2(len0, wm * width)
               ELSE len0
    IN  IF lenopts.type \in {"raw_little", "raw_big"}
        THEN SubSeq(len0, 1, width)
        ELSE IF lenopts.type = "binary"
        THEN [j \in 1..width |->
                 IF (len[((width - j) \div 8) + 1] \div (2 ^ ((width - j) % 8))) % 2 = 1
                 THEN 49 ELSE 48]
        ELSE Printf(len, width, base_code)

(***************************************************************************)
(* The generator (generator.c) as a state machine.                         *)
(***************************************************************************)
\* Bounds of the model.
FUZZ_GEN_CTX_POOL_MULTIPLIER == 1
MaxCalls == 2

\* The patterns the generator is run on.
Patterns ==
    { P("ab{2,3}c"), P("(ab){0,2}x"), P("(a(b)c){0,1}d"), P("((a){0,1}b){2}"),
      P("a|b|c"), P("x(a|bc)"), P("a|b(cd)"), P("(ab|cd)"),
      P("[a-c]{1,2}"), P("[^\\d1-\\d254]"), P("\\x41\\n"),
      P("[^\\d1,\\d3,\\d5,\\d7,\\d9,\\d11,\\d13,\\d15,\\d17,\\d19,\\d21,\\d23,\\d25,\\d27,\\d29,\\d31]"),
      P("(a|b)<$X><@X>-<#d2:X><%X><@X>"), P("(a{1,9})<$X>q<@X>{2}"),
      P("a{14,17}"), P("a{30,33}"), P("abc{65535}"), P("(abc(def(ghi(jkl){65535}){65535}){65535}){65535}") }

VARIABLES
    pattern,   \* the pattern text given to PatternFactory__new
    nf,        \* what PatternFactory__new returned
    pc,        \* where the caller stands
    gctx,      \* the generator contexts: the subcontexts in order, then the parent
    strs,      \* the fuzz_str_t objects ever allocated, named by their index
    frames,    \* the running Generator__get_next calls, the innermost last
    retval,    \* what the last outermost Generator__get_next returned
    calls,     \* how many times the caller has called Generator__get_next
    ev,        \* history: what the last step of the generator did
    hist,      \* history: per context its last generation; the open nullification
    api,       \* the nanofuzz context of api.c: its output stack, worker and caller
    prng       \* the PRNG of generator.c: its static state, and the draws made of it

vars == <<pattern, nf, pc, gctx, strs, frames, retval, calls, ev, hist, api, prng>>

PoolSize(type) == type * FUZZ_GEN_CTX_POOL_MULTIPLIER

ZeroPool(type) == [i \in 1..PoolSize(type) |-> 0]

NoCounter == [how_many |-> 0, generated |-> 0]

\* The number of subcontexts, and the index in gctx of the parent context.
NSub == Len(nf.factory.subcontexts)
Parent == NSub + 1

\* The factory a context generates from.
FactoryOf(c) ==
    IF c = Parent THEN nf.factory ELSE nf.factory.subcontexts[c].p_gen_ctx.p_factory

TypeOf(c) == IF c = Parent THEN normal ELSE nf.factory.subcontexts[c].p_gen_ctx.type

NoEv == [kind |-> "none", ctx |-> 0, pip |-> 0, blk |-> NEW_PATTERN_BLOCK, iters |-> 0,
         bytes |-> <<>>, written |-> 0, next |-> 0, target |-> 0, nest |-> 0,
         loops |-> FALSE, cleared |-> FALSE, nullified |-> FALSE, nul |-> <<>>,
         drew |-> FALSE]

\* History: per context the bytes of its last generation and, per nest
\* level, the count drawn at the sub and the runs of its body so far; and
\* the nullification in force, if any.
NoGen == [ok |-> FALSE, bytes |-> <<>>]
NoRuns == [i \in 0..(FUZZ_MAX_NESTING_COMPLEXITY - 1) |-> [want |-> 0, runs |-> 0]]
NoHist == [lastgen |-> <<>>, nul |-> <<>>, runs |-> <<>>]

\* Xoshiro128p__next_bounded: the values it can return over all PRNG states.
Xoshiro128p__next_bounded(low, high) == IF high > low THEN low..high ELSE {0}

\* The iteration counts a block can be given.
Iters(count) ==
    IF count.single > 0 THEN {count.base}
    ELSE Xoshiro128p__next_bounded(count.base, count.high)

\* The nanofuzz context before Nanofuzz__new: nothing of it exists.
NoApi == [size |-> 0, type |-> 0, main |-> "none", worker |-> "none", generated |-> 0,
          count |-> 0, is_error |-> 0, p_data |-> NULL, slots |-> <<>>, results |-> <<>>,
          p_data_copy |-> NULL, p_most_recent |-> NULL, rec_freed |-> {}, blob_freed |-> {},
          freed |-> FALSE, faults |-> {}, last |-> "none", outcomes |-> {}]

\* The PRNG before the first generator context: not seeded, nothing drawn.
NoPrng == [s |-> <<>>, s_seeded |-> 0, seed |-> <<>>, made |-> 0, asked |-> <<>>, drawn |-> <<>>]

\* Nothing has been built yet.
Fresh ==
    /\ nf = [status |-> "none", factory |-> NoFactory, p_err |-> <<>>]
    /\ pc = "new"
    /\ gctx = <<>>
    /\ strs = <<>>
    /\ frames = <<>>
    /\ retval = NULL
    /\ calls = 0
    /\ ev = NoEv
    /\ hist = NoHist

Init ==
    /\ pattern \in Patterns
    /\ Fresh
    /\ api = NoApi
    /\ prng = NoPrng

\* A frame of Generator__get_next on context c: pip and p_current as offsets,
\* p_nullified as the level of the counter it points at (-1 for NULL), and
\* for a reference block that called into a subcontext, what it waits for.
Frame(c) ==
    [ctx |-> c, pip |-> 0, p_current |-> 0, p_nullified |-> -1,
     wait |-> "none", iters |-> 0]

\* The caller builds the factory.
Compile ==
    /\ pc = "new"
    /\ nf' = PatternFactory__new(pattern)
    /\ pc' = IF nf'.status = "ok" THEN "contexts" ELSE nf'.status
    /\ ev' = NoEv
    /\ UNCHANGED <<prng, api, pattern, gctx, strs, frames, retval, calls, hist>>

\* Generator__new_context, for the subcontexts in the order of their
\* declarations and then for the parent: the context is made and primed by a
\* first Generator__get_next.
Generator__new_context ==
    /\ pc = "contexts"
    /\ frames = <<>>
    /\ Len(gctx) < Parent
    /\ LET c == Len(gctx) + 1
       IN  /\ gctx' = Append(gctx, [type |-> TypeOf(c), nest_level |-> 0,
                                    counter |-> [i \in 0..(FUZZ_MAX_NESTING_COMPLEXITY - 1)
                                                    |-> NoCounter],
                                    p_most_recent |-> NULL,
                                    p_data_pool |-> ZeroPool(TypeOf(c))])
           /\ frames' = <<Frame(c)>>
           /\ hist' = [hist EXCEPT !.lastgen = Append(@, NoGen),
                                    !.runs = Append(@, NoRuns)]
    /\ ev' = NoEv
    /\ UNCHANGED <<prng, api, pattern, nf, pc, strs, retval, calls>>

\* The caller asks the parent context for the next output.
Call ==
    /\ pc = "contexts"
    /\ frames = <<>>
    /\ Len(gctx) = Parent
    /\ calls < MaxCalls
    /\ calls' = calls + 1
    /\ frames' = <<Frame(Parent)>>
    /\ ev' = NoEv
    /\ UNCHANGED <<prng, api, pattern, nf, pc, gctx, strs, retval, hist>>

(***************************************************************************)
(* Generator__get_next, one action per block executed.                     *)
(***************************************************************************)
Top == frames[Len(frames)]

Running == pc = "contexts" /\ frames # <<>>

\* The block under the pseudo-instruction pointer of the innermost call.
Blk == FactoryOf(Top.ctx).node_seq[Top.pip + 1]

\* The block is one the loop executes: not the end, and not one that the
\* nullification in force passes over.
Executes(type) ==
    /\ Running
    /\ Top.wait = "none"
    /\ Blk.type = type
    /\ (type \in {"sub", "ret"} \/ Top.p_nullified = -1)

\* p_pool_end as an offset from the start of the pool.
p_pool_end(c) == 1 + PoolSize(gctx[c].type)

\* An overflow test that also refuses the emit that fills the pool exactly.
OverflowsAtFit(c, iters, z, p_current) == ((iters * z) + p_current) >= p_pool_end(c) - 1

\* The overflow test in front of an emit of iters units of z bytes.
Overflows(c, iters, z, p_current) == ((iters * z) + p_current) >= p_pool_end(c)

WritePool(pool, at, bytes) ==
    [i \in DOMAIN pool |-> IF i > at /\ i <= at + Len(bytes) THEN bytes[i - at] ELSE pool[i]]

\* The frames and the caller's view once the innermost call has returned
\* value: an outer call, if any, goes on from where it waited.
Returned(value) ==
    /\ frames' = SubSeq(frames, 1, Len(frames) - 1)
    /\ retval' = IF Len(frames) = 1 /\ calls > 0 THEN value ELSE retval

\* The loop takes an iteration count for every block it does not pass over,
\* and the expression of the count calls Xoshiro128p__next_bounded whatever
\* the count of the block is: both factors of its product are evaluated.
TakesIters ==
    /\ Top.wait = "none"
    /\ Blk.type # "end"
    /\ (Blk.type \in {"sub", "ret"} \/ Top.p_nullified = -1)

Event(kind, iters, bytes, next) ==
    [NoEv EXCEPT !.kind = kind, !.ctx = Top.ctx, !.pip = Top.pip, !.blk = Blk,
                 !.iters = iters, !.bytes = bytes, !.written = Top.p_current,
                 !.next = next, !.nest = gctx[Top.ctx].nest_level,
                 !.nullified = Top.p_nullified # -1, !.nul = hist.nul,
                 !.drew = TakesIters]

\* __gen_overflow: the pool is zeroed, the nest level and the most recent
\* output are reset, and the call returns NULL.
gen_overflow(iters) ==
    /\ gctx' = [gctx EXCEPT ![Top.ctx].p_data_pool = ZeroPool(gctx[Top.ctx].type),
                            ![Top.ctx].nest_level = 0,
                            ![Top.ctx].p_most_recent = NULL]
    /\ Returned(NULL)
    /\ ev' = Event("overflow", iters, <<>>, Top.pip)
    /\ hist' = [hist EXCEPT !.lastgen[Top.ctx] = NoGen,
                            !.runs[Top.ctx] = NoRuns,
                            !.nul = IF @ # <<>> /\ @[1].ctx = Top.ctx THEN <<>> ELSE @]
    /\ UNCHANGED <<prng, api, pattern, nf, pc, strs, calls>>

\* An emit of the bytes by the innermost call, which then moves on one block.
Emit(kind, iters, bytes) ==
    /\ gctx' = [gctx EXCEPT ![Top.ctx].p_data_pool = WritePool(@, Top.p_current, bytes)]
    /\ frames' = [frames EXCEPT ![Len(frames)].p_current = @ + Len(bytes),
                                ![Len(frames)].pip = @ + 1,
                                ![Len(frames)].wait = "none"]
    /\ ev' = Event(kind, iters, bytes, Top.pip + 1)
    /\ UNCHANGED <<prng, api, pattern, nf, pc, strs, retval, calls, hist>>

\* A block other than a sub or a ret under a nullification: passed over.
SkipNullified ==
    /\ Running
    /\ Top.wait = "none"
    /\ Blk.type \notin {"sub", "ret", "end"}
    /\ Top.p_nullified # -1
    /\ frames' = [frames EXCEPT ![Len(frames)].pip = @ + 1]
    /\ ev' = Event("skip", 0, <<>>, Top.pip + 1)
    /\ UNCHANGED <<prng, api, pattern, nf, pc, gctx, strs, retval, calls, hist>>

\* case string
ExecString ==
    /\ Executes("string")
    /\ \E iters \in Iters(Blk.count) :
         IF Overflows(Top.ctx, iters, Len(Blk.str), Top.p_current)
         THEN gen_overflow(iters)
         ELSE Emit("string", iters, Repeat(Blk.str, iters))

\* The bytes one draw from the range can give when the fragment selected
\* lies inside the fragments array.
RangeChars(range) ==
    UNION { LET frag == range.fragments[sel + 1]
            IN  IF frag.single # 0 THEN {frag.base % 256}
                ELSE {v % 256 : v \in Xoshiro128p__next_bounded(frag.base, frag.high)}
          : sel \in {x \in Xoshiro128p__next_bounded(0, range.amount - 1) :
                        x < FUZZ_MAX_PATTERN_RANGE_FRAGMENTS} }

\* case range.  A fragment selected past the end of the fragments array is
\* read from whatever lies behind it: any byte can come out, and nothing is
\* known of the program from there on.
ExecRange ==
    /\ Executes("range")
    /\ \E iters \in Iters(Blk.count) :
         IF Overflows(Top.ctx, iters, 1, Top.p_current)
         THEN gen_overflow(iters)
         ELSE \/ \E bytes \in [1..iters -> RangeChars(Blk.range)] :
                   Emit("range", iters, bytes)
              \/ /\ Blk.range.amount > FUZZ_MAX_PATTERN_RANGE_FRAGMENTS
                 /\ \E bytes \in [1..iters -> 0..255] :
                      /\ gctx' = [gctx EXCEPT ![Top.ctx].p_data_pool =
                                      WritePool(@, Top.p_current, bytes)]
                      /\ ev' = Event("range", iters, bytes, Top.pip + 1)
                 /\ pc' = "ub"
                 /\ UNCHANGED <<prng, api, pattern, nf, strs, frames, retval, calls, hist>>

\* case sub
ExecSub ==
    /\ Executes("sub")
    /\ \E iters \in Iters(Blk.count) :
         LET c == Top.ctx
             lvl == gctx[c].nest_level
             nullify == iters = 0 /\ Top.p_nullified = -1
         IN  IF lvl >= FUZZ_MAX_NESTING_COMPLEXITY
             THEN /\ pc' = "ub"
                  /\ ev' = Event("ub", iters, <<>>, Top.pip)
                  /\ UNCHANGED <<gctx, frames, hist>>
             ELSE /\ gctx' = [gctx EXCEPT ![c].counter[lvl] =
                                              [how_many |-> iters % 65536, generated |-> 0],
                                          ![c].nest_level = lvl + 1]
                  /\ frames' = [frames EXCEPT ![Len(frames)].pip = @ + 1,
                                              ![Len(frames)].p_nullified =
                                                  IF nullify THEN lvl ELSE @]
                  /\ ev' = Event("sub", iters, <<>>, Top.pip + 1)
                  /\ hist' = [hist EXCEPT
                        !.runs[c][lvl] = [want |-> iters,
                                          runs |-> IF Top.p_nullified = -1 /\ iters > 0
                                                   THEN 1 ELSE 0],
                        !.nul = IF nullify
                                THEN <<[ctx |-> c, sub |-> Top.pip,
                                        written |-> Top.p_current, nest |-> lvl]>>
                                ELSE @]
                  /\ pc' = pc
    /\ UNCHANGED <<prng, api, pattern, nf, strs, retval, calls>>

\* A ret that ends whatever nullification is in force.
EndsAtAnyRet(p_ctr, p_nullified) == TRUE

\* Whether the ret under a nullification is the one that ends it.
EndsNullification(p_ctr, p_nullified) == p_ctr = p_nullified

\* A ret that sends the pip back once more than the counter asks for.
RetLoopsOnceMore(ctr) == ctr.generated <= ctr.how_many

\* Whether the ret sends the pip back for another run of the body.
RetLoops(ctr) == UINT16_MAX # ctr.generated /\ ctr.generated < ctr.how_many

\* case ret.  With the nest level at 0 the counter is read from in front of
\* the counter array.
ExecRet ==
    /\ Executes("ret")
    /\ LET c == Top.ctx
           lvl == gctx[c].nest_level
           p_ctr == lvl - 1
           ends == EndsNullification(p_ctr, Top.p_nullified)
           ticked == [gctx[c].counter[p_ctr] EXCEPT !.generated = (@ + 1) % 65536]
       IN  IF lvl = 0
           THEN /\ pc' = "ub"
                /\ ev' = Event("ub", 0, <<>>, Top.pip)
                /\ UNCHANGED <<gctx, frames, hist>>
           ELSE IF Top.p_nullified # -1
           THEN /\ gctx' = [gctx EXCEPT
                               ![c].counter[p_ctr] = IF ends THEN [how_many |-> 0,
                                                                   generated |-> 1]
                                                     ELSE @,
                               ![c].nest_level = lvl - 1]
                /\ frames' = [frames EXCEPT ![Len(frames)].pip = @ + 1,
                                            ![Len(frames)].p_nullified =
                                                IF ends THEN -1 ELSE @]
                /\ ev' = [Event("ret", 0, <<>>, Top.pip + 1) EXCEPT !.cleared = ends,
                                                                    !.target = p_ctr]
                /\ hist' = [hist EXCEPT !.nul = IF ends THEN <<>> ELSE @]
                /\ pc' = pc
           ELSE /\ gctx' = [gctx EXCEPT ![c].counter[p_ctr] = ticked,
                                        ![c].nest_level =
                                            IF RetLoops(ticked) THEN lvl ELSE lvl - 1]
                /\ frames' = [frames EXCEPT ![Len(frames)].pip =
                                                IF RetLoops(ticked) THEN @ - Blk.num
                                                ELSE @ + 1]
                /\ ev' = [Event("ret", 0, <<>>,
                                IF RetLoops(ticked) THEN Top.pip - Blk.num ELSE Top.pip + 1)
                             EXCEPT !.loops = RetLoops(ticked), !.target = p_ctr]
                /\ hist' = [hist EXCEPT !.runs[c][p_ctr].runs =
                                            IF RetLoops(ticked) THEN @ + 1 ELSE @]
                /\ pc' = pc
    /\ UNCHANGED <<prng, api, pattern, nf, strs, retval, calls>>

\* case branch_root
ExecBranchRoot ==
    /\ Executes("branch_root")
    /\ \E select \in Xoshiro128p__next_bounded(0, Blk.amount) :
         LET incr == Blk.steps[select]
             next == Top.pip + (IF incr # 0 THEN incr ELSE 1)
         IN  /\ frames' = [frames EXCEPT ![Len(frames)].pip = next]
             /\ ev' = [Event("root", 1, <<>>, next) EXCEPT !.target = select]
             /\ pc' = IF next >= FactoryOf(Top.ctx).count THEN "ub" ELSE pc
    /\ UNCHANGED <<prng, api, pattern, nf, gctx, strs, retval, calls, hist>>

\* case branch_jmp
ExecBranchJmp ==
    /\ Executes("branch_jmp")
    /\ LET next == Top.pip + (IF Blk.num # 0 THEN Blk.num ELSE 1)
       IN  /\ frames' = [frames EXCEPT ![Len(frames)].pip = next]
           /\ ev' = Event("jmp", 1, <<>>, next)
           /\ pc' = IF next >= FactoryOf(Top.ctx).count THEN "ub" ELSE pc
    /\ UNCHANGED <<prng, api, pattern, nf, gctx, strs, retval, calls, hist>>

\* The loop ends on the end block: a copy of what the pool holds becomes the
\* most recent output, the pool is cleared up to one byte past the output,
\* and the copy is returned.  When the output fills the pool that last byte
\* lies behind the allocation: the write may land in the allocator's slack,
\* or on what the allocator keeps there, and then nothing is known of the
\* program from there on.
Return ==
    /\ Running
    /\ Top.wait = "none"
    /\ Blk.type = "end"
    /\ LET c == Top.ctx
           length == Top.p_current
           output == SubSeq(gctx[c].p_data_pool, 1, length)
           p_ret == Len(strs) + 1
       IN  /\ strs' = Append(strs, [length |-> length, output |-> output,
                                    freed |-> FALSE])
           /\ gctx' = [gctx EXCEPT ![c].p_most_recent = p_ret,
                                   ![c].p_data_pool =
                                       [i \in DOMAIN @ |-> IF i <= length + 1 THEN 0 ELSE @[i]]]
           /\ Returned(p_ret)
           /\ ev' = Event("return", 0, output, Top.pip)
           /\ hist' = [hist EXCEPT !.lastgen[c] = [ok |-> TRUE, bytes |-> output],
                                   !.nul = IF @ # <<>> /\ @[1].ctx = c THEN <<>> ELSE @]
           /\ pc' \in IF length + 1 > PoolSize(gctx[c].type) THEN {pc, "ub"} ELSE {pc}
    /\ UNCHANGED <<prng, api, pattern, nf, calls>>

\* __Generator__subcontext_for_label: the context registered under the djb2
\* hash of the label, or NULL.
__Generator__subcontext_for_label(p_ff, p_label) ==
    LET hash == djb2(p_label)
        found == {i \in 1..Len(p_ff.subcontexts) : p_ff.subcontexts[i].hash = hash}
    IN  IF found = {} THEN NULL ELSE CHOOSE i \in found : \A j \in found : i <= j

\* A reference that keeps reading the first output the subcontext ever made.
p_strStale(p_gctx) == IF gctx[p_gctx].p_most_recent = NULL THEN NULL ELSE p_gctx

\* The fuzz_str_t a reference block reads: the most recent of the subcontext.
p_str(p_gctx) == gctx[p_gctx].p_most_recent

\* case reference, from the switch on the reference type on: p_str has been
\* read, was_regen tells whether this block has just generated it.
RefBody(iters, was_regen) ==
    LET c == Top.ctx
        p_gctx == __Generator__subcontext_for_label(FactoryOf(c), Blk.ref.label)
        str == strs[p_str(p_gctx)]
        unit == IF Blk.ref.type = "ref_reference" THEN str.output
                ELSE FormatLen(Blk.ref.lenopts, str.length)
    IN  IF Blk.ref.type = "ref_shuffle"
        THEN IF was_regen
             THEN /\ frames' = [frames EXCEPT ![Len(frames)].pip = @ + 1,
                                              ![Len(frames)].wait = "none"]
                  /\ ev' = Event("shuffle", iters, <<>>, Top.pip + 1)
                  /\ UNCHANGED <<prng, api, pattern, nf, pc, gctx, strs, retval, calls, hist>>
             ELSE /\ strs' = [strs EXCEPT ![p_str(p_gctx)].freed = TRUE]
                  /\ gctx' = [gctx EXCEPT ![p_gctx].p_most_recent = NULL]
                  /\ frames' = Append([frames EXCEPT ![Len(frames)].wait = "shuffle",
                                                     ![Len(frames)].iters = iters],
                                      Frame(p_gctx))
                  /\ ev' = Event("free", iters, <<>>, Top.pip)
                  /\ hist' = [hist EXCEPT !.lastgen[p_gctx] = NoGen]
                  /\ UNCHANGED <<prng, api, pattern, nf, pc, retval, calls>>
        ELSE IF p_str(p_gctx) = NULL
        THEN /\ pc' = "crash"
             /\ ev' = Event("crash", iters, <<>>, Top.pip)
             /\ UNCHANGED <<prng, api, pattern, nf, gctx, strs, frames, retval, calls, hist>>
        ELSE IF Overflows(c, iters, Len(unit), Top.p_current)
        THEN gen_overflow(iters)
        ELSE Emit(IF Blk.ref.type = "ref_reference" THEN "paste" ELSE "count",
                  iters, Repeat(unit, iters))

\* case reference, up to the first generation of a subcontext that has no
\* most recent output.
ExecReference ==
    /\ Executes("reference")
    /\ \E iters \in Iters(Blk.count) :
         LET p_gctx == __Generator__subcontext_for_label(FactoryOf(Top.ctx), Blk.ref.label)
         IN  IF p_gctx = NULL THEN gen_overflow(iters)
             ELSE IF p_str(p_gctx) = NULL
             THEN /\ frames' = Append([frames EXCEPT ![Len(frames)].wait = "regen",
                                                     ![Len(frames)].iters = iters],
                                      Frame(p_gctx))
                  /\ ev' = Event("regen", iters, <<>>, Top.pip)
                  /\ UNCHANGED <<prng, api, pattern, nf, pc, gctx, strs, retval, calls, hist>>
             ELSE RefBody(iters, FALSE)

\* The reference block goes on after the first generation it asked for.
AfterRegen ==
    /\ Running
    /\ Top.wait = "regen"
    /\ RefBody(Top.iters, TRUE)

\* The shuffle block goes on after the regeneration it asked for.
AfterShuffle ==
    /\ Running
    /\ Top.wait = "shuffle"
    /\ frames' = [frames EXCEPT ![Len(frames)].pip = @ + 1,
                                ![Len(frames)].wait = "none"]
    /\ ev' = Event("shuffle", Top.iters, <<>>, Top.pip + 1)
    /\ UNCHANGED <<prng, api, pattern, nf, pc, gctx, strs, retval, calls, hist>>

Next ==
    \/ Compile
    \/ Generator__new_context
    \/ Call
    \/ SkipNullified
    \/ ExecString
    \/ ExecRange
    \/ ExecSub
    \/ ExecRet
    \/ ExecBranchRoot
    \/ ExecBranchJmp
    \/ ExecReference
    \/ AfterRegen
    \/ AfterShuffle
    \/ Return

Spec == Init /\ [][Next]_vars

(***************************************************************************)
(* The generator's contract, stated on the step the generator has just     *)
(* taken (ev) and on the history kept beside it (hist).                    *)
(***************************************************************************)
EmitKinds == {"string", "range", "paste", "count"}

\* The count k is one the repetition allows.
InCount(count, k) ==
    IF count.single > 0 THEN k = count.base
    ELSE count.base <= k /\ k <= count.high

\* The bytes are k copies of the unit, one after the other.
CopiesOf(bytes, unit, k) ==
    /\ Len(bytes) = k * Len(unit)
    /\ \A j \in 0..(k - 1) : SubSeq(bytes, j * Len(unit) + 1, (j + 1) * Len(unit)) = unit

\* The bytes are k copies of some unit.
SomeCopies(bytes, k) ==
    IF k = 0 THEN bytes = <<>>
    ELSE /\ Len(bytes) % k = 0
         /\ CopiesOf(bytes, SubSeq(bytes, 1, Len(bytes) \div k), k)

\* The bytes of the last emit lie in the pool where the emit began.
InPool ==
    SubSeq(gctx[ev.ctx].p_data_pool, ev.written + 1, ev.written + Len(ev.bytes)) = ev.bytes

\* C1: every block executed with a repetition {n,m} emits its unit k times
\* with n <= k <= m, with {n} exactly n times, and the body of a subsequence
\* has run exactly as many times as the count drawn at its sub block when its
\* ret steps out.
C1_RepetitionCounts ==
    /\ ev.kind \in (EmitKinds \cup {"sub"}) => InCount(ev.blk.count, ev.iters)
    /\ ev.kind \in EmitKinds => InPool
    /\ ev.kind = "string" => CopiesOf(ev.bytes, ev.blk.str, ev.iters)
    /\ ev.kind = "range" => Len(ev.bytes) = ev.iters
    /\ ev.kind \in {"paste", "count"} => SomeCopies(ev.bytes, ev.iters)
    /\ (ev.kind = "ret" /\ ~ev.loops /\ (~ev.nullified \/ ev.cleared))
           => hist.runs[ev.ctx][ev.target].runs = hist.runs[ev.ctx][ev.target].want

\* A subsequence drawn at least twice has run its body and stepped out.
C1_Witness ==
    /\ ev.kind = "ret" /\ ~ev.loops /\ ~ev.nullified
    /\ hist.runs[ev.ctx][ev.target].want >= 2
    /\ hist.runs[ev.ctx][ev.target].runs = hist.runs[ev.ctx][ev.target].want

\* The bytes a fragment stands for.
FragSet(f) == IF f.single # 0 THEN {f.base} ELSE f.base..f.high

\* The set S written between the brackets.
GivenSet(range) == UNION {FragSet(range.given[i]) : i \in 1..Len(range.given)}

\* The bytes the range block may give: S, or its complement in 0..255.
Allowed(range) == IF range.negated THEN (0..255) \ GivenSet(range) ELSE GivenSet(range)

\* The bytes the fragments stored in the block stand for.
Covered(range) == UNION {FragSet(range.fragments[i]) : i \in 1..Len(range.fragments)}

RangeBlocks(ff) == {i \in 1..Len(ff.node_seq) : ff.node_seq[i].type = "range"}

\* C2: every byte written for a range block compiled from [S] is in S, and
\* from [^S] in the complement of S within 0..255; the fragments a negation
\* stores are exactly the gaps between the ordered sub-ranges of S.
C2_RangeMembership ==
    /\ nf.status = "ok" =>
           \A i \in RangeBlocks(nf.factory) :
               LET range == nf.factory.node_seq[i].range
               IN  /\ range.amount = Len(range.fragments)
                   /\ Covered(range) = Allowed(range)
    /\ ev.kind = "range" => \A i \in 1..Len(ev.bytes) : ev.bytes[i] \in Allowed(ev.blk.range)

\* The ret that closes the subsequence opened by the sub at s, as offsets
\* into the node sequence; the length of the sequence if there is none.
MatchingRet(seq, s) ==
    LET rets == {t \in (s + 1)..(Len(seq) - 1) :
                    seq[t + 1].type = "ret" /\ t - seq[t + 1].num = s + 1}
    IN  IF rets = {} THEN Len(seq) ELSE Least(rets)

\* The number of blocks of the arm that starts at i.
ArmLen(seq, i) == IF seq[i + 1].type = "sub" THEN MatchingRet(seq, i) - i + 1 ELSE 1

\* Where arm k of the alternation rooted at r starts.
ArmStart(seq, r, k) == r + (IF seq[r + 1].steps[k] # 0 THEN seq[r + 1].steps[k] ELSE 1)

\* The first block after the alternation rooted at r.
AfterAlternation(seq, r) ==
    LET last == ArmStart(seq, r, seq[r + 1].amount)
    IN  last + ArmLen(seq, last)

\* The root of the alternation a jmp at j belongs to: the nearest in front.
OwnerRoot(seq, j) ==
    CHOOSE r \in 0..(j - 1) :
        /\ seq[r + 1].type = "branch_root"
        /\ \A q \in (r + 1)..(j - 1) : seq[q + 1].type # "branch_root"

\* C3: at a branch root exactly one arm is executed before control reaches
\* the first block after the alternation: the root sends control to the
\* start of one arm, every arm but the last ends in a jmp, and a jmp sends
\* control to the first block after the alternation.
C3_OneArm ==
    LET seq == FactoryOf(ev.ctx).node_seq
    IN  /\ ev.kind = "root" =>
               /\ ev.target \in 0..ev.blk.amount
               /\ ev.next = ArmStart(seq, ev.pip, ev.target)
               /\ \A k \in 0..(ev.blk.amount - 1) :
                      seq[ArmStart(seq, ev.pip, k) + ArmLen(seq, ArmStart(seq, ev.pip, k)) + 1].type
                          = "branch_jmp"
        /\ ev.kind = "jmp" => ev.next = AfterAlternation(seq, OwnerRoot(seq, ev.pip))

\* The context a reference block of context c reads from.
Referred(c, blk) == __Generator__subcontext_for_label(FactoryOf(c), blk.ref.label)

\* The number the decimal digits spell.
DecimalOf(digits) ==
    LET Sum[j \in 0..Len(digits)] ==
            IF j = 0 THEN 0 ELSE Sum[j - 1] * 10 + (digits[j] - 48)
    IN  Sum[Len(digits)]

\* The unit spells the length as the options of the length reference ask:
\* stated for the decimal form, `width' digits of (length + add), cut to the
\* width.
SpellsLength(unit, lenopts, length) ==
    lenopts.type = "decimal" /\ lenopts.width > 0 =>
        /\ Len(unit) = lenopts.width
        /\ \A j \in 1..Len(unit) : isdigit(unit[j])
        /\ DecimalOf(unit) = (length + lenopts.add) % (10 ^ lenopts.width)

\* C4: a paste reference writes exactly the bytes cached as the most recent
\* output of the subcontext it names (those of its latest reshuffle, or of a
\* first generation when there was none), and a length reference writes the
\* length of that same byte sequence.
C4_ReferenceConsistency ==
    ev.kind \in {"paste", "count"} =>
        LET cached == hist.lastgen[Referred(ev.ctx, ev.blk)]
        IN  /\ cached.ok
            /\ ev.kind = "paste" => CopiesOf(ev.bytes, cached.bytes, ev.iters)
            /\ ev.kind = "count" =>
                   /\ CopiesOf(ev.bytes, FormatLen(ev.blk.ref.lenopts, Len(cached.bytes)),
                               ev.iters)
                   /\ ev.iters > 0 =>
                          SpellsLength(SubSeq(ev.bytes, 1, Len(ev.bytes) \div ev.iters),
                                       ev.blk.ref.lenopts, Len(cached.bytes))

\* A paste behind a reshuffle that brought other bytes than the first
\* generation of the subcontext.
C4_Witness ==
    /\ ev.kind = "paste"
    /\ \E j \in 0..(ev.pip - 1) :
           LET b == FactoryOf(ev.ctx).node_seq[j + 1]
           IN  b.type = "reference" /\ b.ref.type = "ref_shuffle"
    /\ ev.bytes # <<>>
    /\ ev.bytes # strs[Referred(ev.ctx, ev.blk)].output

\* C5: from a sub block that draws the count 0 to its matching ret no byte
\* is written, whatever lies between; the nullification ends at the matching
\* ret and at no ret inside; and past that ret the nest level is what it was
\* in front of the sub.
C5_Nullification ==
    /\ hist.nul # <<>> =>
           /\ ev.kind \in {"sub", "ret", "skip"}
           /\ frames # <<>>
           /\ Top.ctx = hist.nul[1].ctx
           /\ Top.p_current = hist.nul[1].written
           /\ Top.p_nullified # -1
    /\ (ev.kind = "ret" /\ ev.nullified) =>
           /\ ev.nul # <<>>
           /\ ev.cleared <=>
                  ev.pip = MatchingRet(FactoryOf(ev.ctx).node_seq, ev.nul[1].sub)
           /\ ev.cleared =>
                  /\ gctx[ev.ctx].nest_level = ev.nul[1].nest
                  /\ Top.p_nullified = -1
                  /\ Top.p_current = ev.nul[1].written
                  /\ hist.nul = <<>>

\* The matching ret of a nullified subsequence that holds a subsequence.
C5_Witness ==
    /\ ev.kind = "ret" /\ ev.cleared
    /\ \E j \in (ev.nul[1].sub + 1)..(ev.pip - 1) :
           FactoryOf(ev.ctx).node_seq[j + 1].type = "sub"
    /\ gctx[ev.ctx].nest_level = ev.nul[1].nest

\* The size in bytes of the unit of a string or range block.
UnitSize(blk) == IF blk.type = "string" THEN Len(blk.str) ELSE 1

\* C6: an emit that would take the written bytes past the capacity of the
\* pool makes the call return NULL with the pool zeroed, the nest level 0
\* and no most recent output; an emit that fills the pool exactly is carried
\* out; and no output comes back from a call that overflowed.
C6_Overflow ==
    /\ ev.kind \in EmitKinds =>
           ev.written + Len(ev.bytes) <= PoolSize(gctx[ev.ctx].type)
    /\ ev.kind = "overflow" =>
           /\ gctx[ev.ctx].p_data_pool = ZeroPool(gctx[ev.ctx].type)
           /\ gctx[ev.ctx].nest_level = 0
           /\ gctx[ev.ctx].p_most_recent = NULL
           /\ (frames = <<>> /\ calls > 0) => retval = NULL
           /\ ev.blk.type \in {"string", "range"} =>
                  ev.iters * UnitSize(ev.blk) + ev.written > PoolSize(gctx[ev.ctx].type)

\* An overflow in the middle of a generation: bytes were written and are gone.
C6_Witness ==
    /\ ev.kind = "overflow" /\ ev.written > 0
    /\ frames = <<>> /\ calls > 0 /\ retval = NULL
    /\ gctx[ev.ctx].p_data_pool = ZeroPool(gctx[ev.ctx].type)

\* C7: no output is longer than the max_output_size of the factory it is
\* generated from.
C7_OutputBound ==
    ev.kind = "return" => Len(ev.bytes) <= FactoryOf(ev.ctx).max_output_size

(***************************************************************************)
(* PatternFactory__new on its own, over every pattern of at most MaxTokens *)
(* pieces.                                                                 *)
(***************************************************************************)
MaxTokens == 4

Tokens == { P("a"), P("a{,65535}"), P("("), P(")"), P("){,65535}"), P("|b") }

\* The pieces one after the other.
Flatten(ts) ==
    LET F[i \in 0..Len(ts)] == IF i = 0 THEN <<>> ELSE F[i - 1] \o ts[i]
    IN  F[Len(ts)]

CompilePatterns ==
    {Flatten(ts) : ts \in UNION {[1..n -> Tokens] : n \in 1..MaxTokens}}
        \cup {P("(abc(def(ghi(jkl){65535}){65535}){65535}){65535}")}

InitCompile ==
    /\ pattern \in CompilePatterns
    /\ Fresh
    /\ api = NoApi
    /\ prng = NoPrng

SpecCompile == InitCompile /\ [][Compile]_vars

(***************************************************************************)
(* Sizes beyond 32-bit integers: little-endian base-256                    *)
(* numbers of BigLen digits.                                               *)
(***************************************************************************)
BigLen == 14

BigOf(n) ==
    [i \in 1..BigLen |-> CASE i = 1 -> n % 256
                           [] i = 2 -> (n \div 256) % 256
                           [] i = 3 -> (n \div 65536) % 256
                           [] OTHER -> 0]

BigAdd(a, b) ==
    LET c[i \in 0..BigLen] == IF i = 0 THEN 0 ELSE (a[i] + b[i] + c[i - 1]) \div 256
    IN  [i \in 1..BigLen |-> (a[i] + b[i] + c[i - 1]) % 256]

\* a times k, for k below 2^16.
BigMul(a, k) ==
    LET c[i \in 0..BigLen] == IF i = 0 THEN 0 ELSE (a[i] * k + c[i - 1]) \div 256
    IN  [i \in 1..BigLen |-> (a[i] * k + c[i - 1]) % 256]

\* FUZZ_MAX_OUTPUT_SIZE, 2^32 - 1, is the greatest number of four digits.
ExceedsCap(a) == \E i \in 5..BigLen : a[i] # 0

\* The blocks that write bytes.
Emitting(blk) ==
    \/ blk.type \in {"string", "range"}
    \/ blk.type = "reference" /\ blk.ref.type \in {"ref_reference", "ref_count"}

\* The sum, over the emitting blocks, of count.high times the product of the
\* count.high of the sub blocks around it: `mults' holds that product per
\* open subsequence, the outermost first.
MaxPossibleOutput(seq) ==
    LET W[i \in 0..Len(seq)] ==
            IF i = 0 THEN [sum |-> BigOf(0), mults |-> <<BigOf(1)>>]
            ELSE LET w == W[i - 1]
                     b == seq[i]
                     top == w.mults[Len(w.mults)]
                 IN  CASE b.type = "sub" ->
                              [w EXCEPT !.mults = Append(@, BigMul(top, b.count.high))]
                       [] b.type = "ret" /\ Len(w.mults) > 1 ->
                              [w EXCEPT !.mults = SubSeq(@, 1, Len(@) - 1)]
                       [] Emitting(b) ->
                              [w EXCEPT !.sum = BigAdd(@, BigMul(top, b.count.high))]
                       [] OTHER -> w
    IN  W[Len(seq)].sum

\* C8: PatternFactory__new returns no factory for a pattern whose maximum
\* possible output size, the sum over the emitting blocks of count.high
\* times the count.high of every sub block around it, exceeds 2^32 - 1.
C8_SizeCap ==
    nf.status = "ok" => ~ExceedsCap(MaxPossibleOutput(nf.factory.node_seq))

(***************************************************************************)
(* The nanofuzz context (api.c): Nanofuzz__new, the worker thread that     *)
(* fills the output stack, and Nanofuzz__get_next.  The generator under it *)
(* is the one above run on the pool of the build, normal * 1 MiB; what the *)
(* context sees of a generation is whether it returns an output or NULL,   *)
(* which the written length decides: every emit is let through while the   *)
(* bytes written stay within the pool.                                     *)
(***************************************************************************)
MaxStack == 2

MiB == 1048576

\* The capacity of a pool of the type.
PoolBytes(type) == type * MiB

\* A pointer to an allocated object.
Allocated == NULL + 1

SatAdd(a, b, cap) == Min(a + b, cap)

SatMul(a, b, cap) ==
    IF a = 0 \/ b = 0 THEN 0
    ELSE IF a > cap \div b THEN cap
    ELSE Min(a * b, cap)

\* The blocks whose output length is a matter of counts alone.
Summarisable(seq) ==
    \A i \in 1..Len(seq) : seq[i].type \in {"string", "range", "sub", "ret", "end"}

\* The least (upper = FALSE) or greatest (upper = TRUE) count the block can
\* be given.
Drawn(count, upper) ==
    IF count.single > 0 THEN count.base
    ELSE IF upper THEN count.high ELSE count.base

\* The least or greatest number of bytes a generation writes, cut at cap:
\* the open subsequences are kept outermost first, each with the count
\* drawn at its sub block and the bytes one run of its body has written.
TotalOf(seq, upper, cap) ==
    LET W[i \in 0..Len(seq)] ==
            IF i = 0 THEN <<[n |-> 1, acc |-> 0]>>
            ELSE LET w == W[i - 1]
                     b == seq[i]
                     d == Len(w)
                     k == Drawn(b.count, upper)
                 IN  CASE b.type = "string" ->
                              [w EXCEPT ![d].acc = SatAdd(@, SatMul(k, Len(b.str), cap), cap)]
                       [] b.type = "range" ->
                              [w EXCEPT ![d].acc = SatAdd(@, k, cap)]
                       [] b.type = "sub" -> Append(w, [n |-> k, acc |-> 0])
                       [] b.type = "ret" /\ d > 1 ->
                              [SubSeq(w, 1, d - 1) EXCEPT
                                   ![d - 1].acc = SatAdd(@, SatMul(w[d].n, w[d].acc, cap), cap)]
                       [] OTHER -> w
    IN  W[Len(seq)][1].acc

\* What a Generator__get_next on a pool of size bytes can come to: an output
\* ("str"), NULL after an overflow ("null"), or, when the output fills the
\* pool, the write behind the pool ("ub").
GenResults(ff, size) ==
    IF ~Summarisable(ff.node_seq) THEN {"str", "null", "ub"}
    ELSE LET lo == TotalOf(ff.node_seq, FALSE, size + 1)
             hi == TotalOf(ff.node_seq, TRUE, size + 1)
         IN  (IF lo <= size THEN {"str"} ELSE {})
                 \cup (IF hi > size THEN {"null"} ELSE {})
                 \cup (IF lo <= size /\ hi >= size THEN {"ub"} ELSE {})

\* The patterns of the tests: those that must generate, the one that must
\* overflow, and one that must not compile.
ValidPatterns ==
    { P("aaaaa"), P("\\r\\n\\x37\\f\\x2f\\s234"), P("a\\<\\[A-Z\\]\\]"), P("aaa\\{aa"),
      P("aa\\r\\n\\r\\n\\b\\xff\\v\\t\\0raaa\\\\"),
      P("a{1,3}bcd"), P("a{,3}bcd"), P("a{0,}bcd"), P("a{65534,65535}bcd"),
      P("a{1,}bcd"), P("a{0,1}bcd"), P("a{001,73}bcd"), P("abcd{1,3}"),
      P("abcd{0,}"), P("abcd{,1}") }

overflow1 == P("(abc(def(ghi(jkl){65535}){65535}){65535}){65535}")

\* A pattern whose generations fit the pool or overflow it, as the counts
\* are drawn.
straddle == P("(a{1,65535}){256,257}")

\* Patterns that are malformed in their structure: a closing character that
\* closes nothing, a construct left open, and repetition statements that are
\* left open, hold something other than digits, have an upper bound of 0 or
\* have one of their braces escaped.
DeadPatterns ==
    { P("a(bcd))"), P("a)bcd"), P("a>bcd"), P("a]bcd"), P("a}bcd"),
      P(")abcd"), P(">abcd"), P("]abcd"), P("}abcd"),
      P("a(bcd"), P("123[A-Z456"), P("a{3bcd"), P("a<@Xbcd"), P("(a)<$X><@X"),
      P("a{3,bcd"), P("a{3,a}bcd"), P("a{a,3}bcd"), P("a{a,a}bcd"), P("a{3x}bcd"),
      P("a{,0}bcd"), P("a{1,0}bcd"),
      P("a{3,5\\}}bcd"), P("a{3\\}bcd"), P("a\\{3,5}bcd"), P("a\\{3}bcd") }

ApiPatterns == ValidPatterns \cup {overflow1, straddle} \cup DeadPatterns

\* The stack types of api.h.
oneshot == 1

refill == 2

InitApi ==
    /\ pattern \in ApiPatterns
    /\ Fresh
    /\ \E n \in 1..MaxStack, t \in {oneshot, refill} :
           api = [NoApi EXCEPT !.size = n, !.type = t, !.main = "new"]
    /\ prng = NoPrng

\* The process is alive: no thread of it has crashed.
Alive == api.main \notin {"crash", "ub"} /\ api.worker \notin {"crash", "ub"}

\* The outputs the context refers to: those in the slots of the stack, the
\* one the worker holds, the copy pop has made last, and the generator's
\* most recent one.
Referenced(a) ==
    ({a.slots[i] : i \in 1..Len(a.slots)} \cup {a.p_data, a.p_data_copy, a.p_most_recent})
        \ {NULL}

\* The record calloc gives the next output: one that nothing refers to.
NewRecord(a) == Least({k \in (NULL + 1)..(NULL + Len(a.slots) + 4) : k \notin Referenced(a)})

\* What Generator__get_next returns to the context for the outcome r, and
\* what it leaves as the most recent output: a new record with its bytes, or
\* NULL and no most recent output after an overflow.
DataOf(r, a) == IF r = "str" THEN NewRecord(a) ELSE NULL

\* The generator context after the generation of outcome r.
Generated(r, a) ==
    LET p == DataOf(r, a)
    IN  [a EXCEPT !.p_data = p, !.p_most_recent = p,
                  !.rec_freed = @ \ {p}, !.blob_freed = @ \ {p}]

\* Nanofuzz__new up to pthread_create, for a stack size above 0 and a type
\* of the two: the factory is built, the generator context made and primed,
\* the stack set up empty, and the worker started.  Without a factory the
\* context is deleted and NULL returned.  What a generation on the new
\* generator context can come to is kept with the context.
Nanofuzz__new ==
    /\ api.main = "new"
    /\ nf' = PatternFactory__new(pattern)
    /\ IF nf'.status # "ok"
       THEN api' = [api EXCEPT !.main = IF nf'.status = "err" THEN "null" ELSE nf'.status]
       ELSE \E primed \in GenResults(nf'.factory, PoolBytes(normal)) :
                api' = IF primed = "ub"
                       THEN [api EXCEPT !.main = "ub"]
                       ELSE LET a == [api EXCEPT
                                         !.slots = [i \in 1..api.size |-> NULL],
                                         !.outcomes = GenResults(nf'.factory, PoolBytes(normal))]
                            IN  [Generated(primed, a) EXCEPT
                                     !.main = "wait", !.worker = "gen", !.p_data = NULL,
                                     !.count = 0, !.generated = 0, !.is_error = 0]
    /\ UNCHANGED <<prng, pattern, pc, gctx, strs, frames, retval, calls, ev, hist>>

\* Whether the stack takes no more.
StackFull(count, size) == count >= size

\* A refill worker that fills the stack for Nanofuzz__new and no more.
RefillWaitsOnceServed(count, size) == count >= size \/ api.main = "ready"

\* Whether the refill worker sleeps instead of generating.
RefillWaits(count, size) == count >= size

\* The worker thread from the test of its loop to the return of
\* Generator__get_next.  The oneshot worker ends once it has generated size
\* outputs and passes what it gets on to the push, NULL too; the refill
\* worker sleeps while the stack is full, and on NULL sets is_error and
\* ends.  The test of the loop reads the stack of the context, also when
\* Nanofuzz__delete has freed it.
Nanofuzz__thread_refresh_context ==
    /\ Alive
    /\ api.worker = "gen"
    /\ IF api.freed
       THEN api' = [api EXCEPT !.worker = "ub", !.faults = @ \cup {"use_after_delete"}]
       ELSE IF api.type = oneshot /\ ~(api.generated < api.size)
       THEN api' = [api EXCEPT !.worker = "exited"]
       ELSE IF api.type = refill /\ RefillWaits(api.count, api.size)
       THEN api' = api
       ELSE \E r \in api.outcomes :
                api' = IF r = "ub" THEN [api EXCEPT !.worker = "ub"]
                       ELSE IF r = "null" /\ api.type = refill
                       THEN [Generated(r, api) EXCEPT !.is_error = 1, !.worker = "exited"]
                       ELSE [Generated(r, api) EXCEPT !.worker = "push"]
    /\ UNCHANGED <<prng, pattern, nf, pc, gctx, strs, frames, retval, calls, ev, hist>>

\* Nanofuzz__output_stack_push as the worker calls it, and the rest of the
\* turn of the worker's loop: the struct p_data points at is copied into the
\* next slot, the record p_data is freed while the generator still has it as
\* its most recent, and the oneshot worker counts the turn.  With p_data
\* NULL the copy reads from address 0.
Nanofuzz__output_stack_push ==
    /\ Alive
    /\ api.worker = "push"
    /\ LET turn == [api EXCEPT !.worker = "gen", !.p_data = NULL,
                               !.rec_freed = @ \cup ({api.p_data} \ {NULL}),
                               !.generated = IF api.type = oneshot THEN @ + 1 ELSE @]
       IN  api' = IF api.freed
                  THEN [api EXCEPT !.worker = "ub", !.faults = @ \cup {"use_after_delete"}]
                  ELSE IF StackFull(api.count, api.size) THEN turn
                  ELSE IF api.p_data = NULL THEN [api EXCEPT !.worker = "crash"]
                  ELSE [turn EXCEPT !.slots[api.count + 1] = api.p_data,
                                    !.count = @ + 1, !.last = "push"]
    /\ UNCHANGED <<prng, pattern, nf, pc, gctx, strs, frames, retval, calls, ev, hist>>

\* Nanofuzz__new from its wait on: it returns the context once the stack
\* is full.
Nanofuzz__new_return ==
    /\ Alive
    /\ api.main = "wait"
    /\ ~(api.count < api.size)
    /\ api' = [api EXCEPT !.main = "ready"]
    /\ UNCHANGED <<prng, pattern, nf, pc, gctx, strs, frames, retval, calls, ev, hist>>

\* Whether the stack holds nothing.
StackEmpty(count) == count = 0

\* The address of slot i of the stack, slot 0 being the first: p_base plus i
\* times the size of a slot.
SlotAddr(i) == Allocated + i

\* Whether slot i lies within the size slots calloc has given the stack.
InStack(i, size) == i < size

\* The address of the copy calloc gives pop: outside the stack.
CopyAddr(size) == SlotAddr(size) + 1

\* What the slot at index i holds when pop copies it: the output pushed
\* there, nothing yet, or, behind the allocation, whatever lies there.
SlotRead(i) ==
    IF InStack(i, api.size) THEN {api.slots[i + 1]}
    ELSE {NULL} \cup Referenced(api)

\* Nanofuzz__output_stack_pop: NULL from an empty stack; else the slot at
\* index count is copied, its address returned, and the count goes down by
\* one.  The pushed outputs lie in the slots 0 .. count - 1, so the slot read
\* is the one behind the last output, and from a full stack it is read from
\* behind the allocation.  The copy is left to itself.
Nanofuzz__output_stack_pop ==
    IF StackEmpty(api.count)
    THEN {[status |-> "ready", p_data |-> NULL, count |-> api.count, copy |-> api.p_data_copy]}
    ELSE {[status |-> "ready", p_data |-> SlotAddr(api.count), count |-> api.count - 1,
           copy |-> c] : c \in SlotRead(api.count)}
             \cup (IF InStack(api.count, api.size) THEN {}
                   ELSE {[status |-> "ub", p_data |-> NULL, count |-> api.count,
                          copy |-> api.p_data_copy]})

\* The results the caller has got: all of them from a oneshot context, the
\* last one from a refill context.
Remember(results, p) == IF api.type = oneshot THEN Append(results, p) ELSE <<p>>

\* Nanofuzz__get_next, asked of a oneshot context at most once more than
\* the stack is deep.
Nanofuzz__get_next ==
    /\ Alive
    /\ api.main = "ready"
    /\ api.type = oneshot => Len(api.results) <= api.size
    /\ \E r \in Nanofuzz__output_stack_pop :
           api' = IF r.status = "ub"
                  THEN [api EXCEPT !.main = "ub"]
                  ELSE [api EXCEPT !.results = Remember(@, r.p_data), !.count = r.count,
                                   !.p_data_copy = r.copy,
                                   !.last = IF r.p_data = NULL THEN @ ELSE "pop"]
    /\ UNCHANGED <<prng, pattern, nf, pc, gctx, strs, frames, retval, calls, ev, hist>>

\* The output the pointer p of a caller refers to: the content of the slot
\* for an address within the stack, the copy for the address of the copy.
OutputAt(p) ==
    IF p = NULL THEN NULL
    ELSE IF p >= SlotAddr(0) /\ p < SlotAddr(api.size) THEN api.slots[p - SlotAddr(0) + 1]
    ELSE IF p = CopyAddr(api.size) THEN api.p_data_copy
    ELSE NULL

\* Nanofuzz__delete_data on a pointer Nanofuzz__get_next has returned: the
\* bytes p_data->output are freed and the field cleared, p_data is compared
\* with the generator's most recent record, and p_data itself is freed.
\* The pointer lies within the stack's allocation and is not its base, or
\* lies behind it: the free is not one of an allocated object.
Nanofuzz__delete_data ==
    /\ Alive
    /\ api.main = "ready"
    /\ \E i \in 1..Len(api.results) :
           LET p == api.results[i]
               blob == OutputAt(p)
           IN  /\ p # NULL
               /\ api' = [api EXCEPT
                              !.blob_freed = @ \cup ({blob} \ {NULL}),
                              !.faults = @ \cup {"invalid_free"}
                                           \cup (IF blob \in api.blob_freed
                                                 THEN {"double_free"} ELSE {}),
                              !.main = "ub"]
    /\ UNCHANGED <<prng, pattern, nf, pc, gctx, strs, frames, retval, calls, ev, hist>>

\* Generator__delete_context as to the most recent output: its bytes are
\* freed through the record, then the record.
Generator__delete_context(a) ==
    LET p == a.p_most_recent
    IN  IF p = NULL THEN a
        ELSE [a EXCEPT !.faults = @ \cup (IF p \in a.rec_freed
                                          THEN {"use_after_free", "double_free"}
                                          ELSE IF p \in a.blob_freed THEN {"double_free"}
                                          ELSE {}),
                       !.blob_freed = @ \cup {p},
                       !.rec_freed = @ \cup {p}]

\* Nanofuzz__delete: the stack is freed, the generator context deleted with
\* its factory, and the context freed.  The worker is neither told nor
\* waited for.
Nanofuzz__delete ==
    /\ Alive
    /\ api.main = "ready"
    /\ LET a == Generator__delete_context(api)
       IN  \E m \in {"deleted"} \cup (IF a.faults = {} THEN {} ELSE {"ub"}) :
               api' = [a EXCEPT !.freed = TRUE, !.main = m]
    /\ UNCHANGED <<prng, pattern, nf, pc, gctx, strs, frames, retval, calls, ev, hist>>

NextApi ==
    \/ Nanofuzz__new
    \/ Nanofuzz__thread_refresh_context
    \/ Nanofuzz__output_stack_push
    \/ Nanofuzz__new_return
    \/ Nanofuzz__get_next
    \/ Nanofuzz__delete_data
    \/ Nanofuzz__delete

SpecApi == InitApi /\ [][NextApi]_vars

\* The caller has called nothing but Nanofuzz__new and Nanofuzz__get_next.
OnlyNext == ~api.freed /\ api.faults = {}

\* C9: for the pattern of four nested subsequences each repeated 65535
\* times, whose every generation overflows the pool, Nanofuzz__new with a
\* stack of 1 returns a context, the Nanofuzz__get_next that follows returns
\* NULL, and neither the worker nor the caller crashes.
C9_OverflowIsReported ==
    (pattern = overflow1 /\ api.size = 1 /\ api.type = oneshot) =>
        /\ Alive
        /\ api.main # "null"
        /\ api.results # <<>> => api.results[1] = NULL

\* C10: for the valid patterns of static strings, escapes and repetitions,
\* Nanofuzz__new with a stack of N returns a context, and each of the N
\* calls of Nanofuzz__get_next that follow returns an output, a pointer that
\* is not NULL, with the process alive.
C10_ValidPatterns ==
    (pattern \in ValidPatterns /\ api.type = oneshot /\ OnlyNext) =>
        /\ Alive
        /\ api.main # "null"
        /\ \A i \in 1..Min(Len(api.results), api.size) : api.results[i] # NULL

\* The addresses of the stack's own storage: its size slots.
StackStorage == {SlotAddr(i) : i \in 0..(api.size - 1)}

\* The outputs the worker has pushed.
Pushed == {api.slots[i] : i \in 1..Len(api.slots)} \ {NULL}

\* C11: in oneshot mode with a stack of N, the first N calls of
\* Nanofuzz__get_next return the N outputs the worker has pushed, each once,
\* each as a copy that is not a pointer into the storage of the stack, and
\* every later call returns NULL.
C11_PopAndCopy ==
    (pattern \in ValidPatterns /\ api.type = oneshot /\ OnlyNext) =>
        LET n == Len(api.results)
            first == 1..Min(n, api.size)
        IN  /\ Alive
            /\ \A i \in first : /\ api.results[i] # NULL
                                /\ api.results[i] \notin StackStorage
                                /\ OutputAt(api.results[i]) \in Pushed
            /\ \A i, j \in first :
                   i # j => OutputAt(api.results[i]) # OutputAt(api.results[j])
            /\ \A i \in (api.size + 1)..n : api.results[i] = NULL

\* The worker thread is scheduled: a step of it that can be taken for good
\* is taken.
SpecApiFair ==
    /\ InitApi
    /\ [][NextApi]_vars
    /\ WF_vars(Nanofuzz__thread_refresh_context)
    /\ WF_vars(Nanofuzz__output_stack_push)

\* A refill context in the hands of the caller, over a pattern whose every
\* generation succeeds.
Serving ==
    /\ pattern \in ValidPatterns
    /\ api.type = refill
    /\ api.main = "ready"
    /\ Alive

\* The statement of C12 as it stands: with the worker scheduled, the stack
\* of a refill context is full again after every pop, whatever the caller
\* does.
C12_ReturnsToFull ==
    [](Serving /\ api.count < api.size ~> api.count = api.size \/ ~Serving)

\* C12: in refill mode, with the worker scheduled and every generation
\* succeeding, every pop is followed by a push of the worker, a caller who
\* finds the stack empty finds an output in it later, and the stack is full
\* again after a push unless the caller pops once more.
C12_Refilled ==
    /\ [](Serving /\ api.last = "pop" ~> api.last = "push" \/ ~Serving)
    /\ [](Serving /\ api.count = 0 ~> api.count > 0 \/ ~Serving)
    /\ [](Serving /\ api.last = "push" /\ api.count < api.size
             ~> api.count = api.size \/ api.last = "pop" \/ ~Serving)

\* The caller has popped and the worker has filled the stack again.
C12_Witness ==
    /\ Serving
    /\ api.results # <<>>
    /\ api.last = "push"
    /\ api.count = api.size

\* C13: a generation that fails leaves the context usable: the worker does
\* not crash on it, and the worker of a refill context, which has no other
\* reason to end, does not end on it but keeps generating.
C13_Recoverable ==
    OnlyNext =>
        /\ api.worker # "crash"
        /\ api.type = refill => api.worker # "exited"

\* C14: once Nanofuzz__delete has returned, the worker has been stopped and
\* joined, in both modes, and has taken no step on the freed context.
C14_WorkerJoined ==
    /\ (api.freed /\ Alive) => api.worker = "exited"
    /\ "use_after_delete" \notin api.faults

\* C16: over Nanofuzz__new, Nanofuzz__get_next, Nanofuzz__delete_data and
\* Nanofuzz__delete, no record and no bytes of an output are freed twice, no
\* free is given a pointer that is not an allocated object, and no freed
\* record is read, the most recent one of the generator in
\* Generator__delete_context included.
C16_SingleOwner ==
    api.faults \cap {"double_free", "use_after_free", "invalid_free"} = {}

(***************************************************************************)
(* The PRNG of generator.c: xoshiro128+ on the two static 64-bit words     *)
(* s[0] and s[1].  A word is the sequence of its four 16-bit limbs, the    *)
(* lowest first.                                                           *)
(***************************************************************************)
MaxContexts == 2

MaxDraws == 3

\* The values of a limb are 0 .. Limb - 1.
Limb == 65536

\* a ^ b of two limbs, bit by bit.
Xor16(a, b) ==
    LET x[i \in 0..16] ==
            IF i = 0 THEN 0
            ELSE x[i - 1] + (2 ^ (i - 1)) * (((a \div (2 ^ (i - 1))) + (b \div (2 ^ (i - 1)))) % 2)
    IN  x[16]

\* Limb j of the word x, counted from 0; 0 outside the word.
LimbOf(x, j) == IF j >= 0 /\ j <= 3 THEN x[j + 1] ELSE 0

\* x ^ y.
Xor(x, y) == <<Xor16(x[1], y[1]), Xor16(x[2], y[2]), Xor16(x[3], y[3]), Xor16(x[4], y[4])>>

\* Limb j of x << k, for k in 0 .. 63.
ShlLimb(x, k, j) ==
    LET q == k \div 16
        r == k % 16
    IN  (LimbOf(x, j - q) % (2 ^ (16 - r))) * (2 ^ r) + LimbOf(x, j - q - 1) \div (2 ^ (16 - r))

\* x << k.
Shl(x, k) == <<ShlLimb(x, k, 0), ShlLimb(x, k, 1), ShlLimb(x, k, 2), ShlLimb(x, k, 3)>>

\* Limb j of x >> k, for k in 0 .. 63.
ShrLimb(x, k, j) ==
    LET q == k \div 16
        r == k % 16
    IN  LimbOf(x, j + q) \div (2 ^ r) + (LimbOf(x, j + q + 1) % (2 ^ r)) * (2 ^ (16 - r))

\* x >> k.
Shr(x, k) == <<ShrLimb(x, k, 0), ShrLimb(x, k, 1), ShrLimb(x, k, 2), ShrLimb(x, k, 3)>>

\* x + y of uint64_t: the carry out of the highest limb is lost.
Add(x, y) ==
    LET c1 == (x[1] + y[1]) \div Limb
        c2 == (x[2] + y[2] + c1) \div Limb
        c3 == (x[3] + y[3] + c2) \div Limb
    IN  <<(x[1] + y[1]) % Limb, (x[2] + y[2] + c1) % Limb,
          (x[3] + y[3] + c2) % Limb, (x[4] + y[4] + c3) % Limb>>

\* x % r for a divisor r of 1 .. 65536, byte by byte from the highest.
Mod(x, r) ==
    LET byte(i) == LET limb == x[4 - ((i - 1) \div 2)]
                   IN  IF i % 2 = 1 THEN limb \div 256 ELSE limb % 256
        rem[i \in 0..8] == IF i = 0 THEN 0 ELSE (256 * rem[i - 1] + byte(i)) % r
    IN  rem[8]

\* ( (x << k) | (x >> (64 - k)) ): the two have no bit in common.
rotl(x, k) ==
    LET l == Shl(x, k)
        h == Shr(x, 64 - k)
    IN  <<l[1] + h[1], l[2] + h[2], l[3] + h[3], l[4] + h[4]>>

\* Xoshiro128p__next_bounded on the state s, for low <= high < 65536: the
\* value returned and the state left behind.
Xoshiro128p__next_bounded_on(s, low, high) ==
    LET range == 1 + high - low
        s0 == s[1]
        result == Add(s0, s[2])
        s1 == Xor(s[2], s0)
    IN  [s |-> <<Xor(Xor(rotl(s0, 24), s1), Shl(s1, 16)), rotl(s1, 37)>>,
         value |-> IF high > low THEN Mod(result, range) + low ELSE 0]

\* What tinymt64 may hand Xoshiro128p__init for s[0] and s[1].
Seeds ==
    LET words == {<<1, 0, 0, 0>>, <<2, 0, 0, 0>>, <<37449, 9362, 18724, 37449>>}
    IN  words \X words

\* The bounds Generator__get_next asks Xoshiro128p__next_bounded for: the
\* count of a block, a fragment of a range; among them bounds that are
\* equal.
Bounds == {<<0, 0>>, <<3, 3>>, <<1, 3>>, <<97, 122>>, <<0, 65535>>}

InitPrng ==
    /\ pattern = <<>>
    /\ Fresh
    /\ api = NoApi
    /\ prng = NoPrng

\* The state the PRNG has for a draw of context c: the one static state,
\* whichever context draws.
StateFor(c) == prng.s

\* Generator__new_context as to the PRNG: the first context made seeds it,
\* Xoshiro128p__init taking what tinymt64 makes of the cycle counter.
Xoshiro128p__init ==
    /\ prng.made < MaxContexts
    /\ \E seed \in IF prng.s_seeded = 0 THEN Seeds ELSE {prng.s} :
           prng' = [prng EXCEPT !.s = seed, !.s_seeded = 1,
                                !.seed = IF prng.s_seeded = 0 THEN seed ELSE @,
                                !.made = @ + 1,
                                !.asked = Append(@, <<>>), !.drawn = Append(@, <<>>)]
    /\ UNCHANGED <<pattern, nf, pc, gctx, strs, frames, retval, calls, ev, hist, api>>

\* The draws made so far.
Draws == LET n[c \in 0..prng.made] == IF c = 0 THEN 0 ELSE n[c - 1] + Len(prng.drawn[c])
         IN  n[prng.made]

\* A Generator__get_next on context c comes to a Xoshiro128p__next_bounded.
Draw ==
    /\ Draws < MaxDraws
    /\ \E c \in 1..prng.made, b \in Bounds :
           LET r == Xoshiro128p__next_bounded_on(StateFor(c), b[1], b[2])
           IN  prng' = [prng EXCEPT !.s = r.s,
                                    !.asked[c] = Append(@, b),
                                    !.drawn[c] = Append(@, r.value)]
    /\ UNCHANGED <<pattern, nf, pc, gctx, strs, frames, retval, calls, ev, hist, api>>

NextPrng ==
    \/ Xoshiro128p__init
    \/ Draw

SpecPrng == InitPrng /\ [][NextPrng]_vars

RECURSIVE Alone(_, _)
\* The values a context draws for the bounds asked when it is the only one
\* to draw from the PRNG seeded with s.
Alone(s, asked) ==
    IF asked = <<>> THEN <<>>
    ELSE LET r == Xoshiro128p__next_bounded_on(s, asked[1][1], asked[1][2])
         IN  <<r.value>> \o Alone(r.s, Tail(asked))

\* C15: the PRNG state is per generator context: the values a context draws
\* are those it draws when no other context draws in between.
C15_PerContext ==
    \A c \in 1..prng.made : prng.drawn[c] = Alone(prng.seed, prng.asked[c])

(***************************************************************************)
(* Subsequences, declarations and references as PatternFactory__new takes  *)
(* or rejects them.                                                        *)
(***************************************************************************)
MaxDepth == 6

\* The body within d pairs of parentheses.
Nest(d, body) == Repeat(P("("), d) \o body \o Repeat(P(")"), d)

\* Valid pieces to put into and around a subsequence.
Pieces == {P("a"), P("a{2,3}"), P("[a-c]"), P("a|b"), P("\\x41")}

NestPatterns ==
    {pre \o Nest(d, body) \o post :
        d \in 1..MaxDepth, body \in Pieces, pre \in {<<>>, P("x")}, post \in {<<>>, P("{2}"), P("y")}}

MaxLabelTokens == 4

\* Pieces with subsequences, declarations and references of the three
\* kinds; the labels 0Z and 19 have the same hash.
LabelTokens ==
    { P("(a)"), P("b"), P("("), P(")"), P("<$X>"), P("<$0Z>"), P("<$19>"),
      P("<@19>"), P("<%X>"), P("<#d0:X>") }

LabelPatterns ==
    {Flatten(ts) : ts \in UNION {[1..n -> LabelTokens] : n \in 1..MaxLabelTokens}}

\* A name declared, then a second declaration whose body refers to it in
\* one of the three ways, then a use of the second name.
BodyRefs == {P("<@X>"), P("<%X>"), P("<#d0:X>"), P("b<@X>"), P("<@X>{2}")}

BodyRefPatterns ==
    {P("(a)<$X>(") \o ref \o P(")<$Y>") \o use :
        ref \in BodyRefs, use \in {P("b"), P("<@Y>"), P("<@X><@Y>")}}

\* A block of each kind that takes a repetition, with a repetition of zero.
ZeroPatterns ==
    {pre \o blk \o rep0 \o post :
        pre \in {<<>>, P("x")}, blk \in {P("a"), P("[a-c]"), P("(ab)"), P("\\x41")},
        rep0 \in {P("{0}"), P("{0,0}")}, post \in {<<>>, P("y")}}

\* Repetition statements in the places they may not stand: with nothing
\* before them, behind another repetition, and right behind the separator
\* of an alternation.
Misplaced ==
    {P("{2}"), P("{2}a"), P("({2}a)"),
     P("a{2}{3}"), P("[a-c]{2}{3}b"), P("(a){1,2}{3}"),
     P("a|{2}b"), P("a|{2,3}b|c"), P("x(a|{2}b)"), P("(a)|{2}b"), P("a|b|{2}c"), P("a|{2}")}

\* Bounds as they may be written in a repetition: within 16 bits, with
\* leading zeros, and above 65535.
Numerals ==
    {P("1"), P("2"), P("0007"), P("300"), P("65535"), P("65536"), P("65537"), P("65538"),
     P("99999"), P("100000")}

\* The repetition {n}, and the repetitions {lo,hi}, {,hi} and {lo,}.
Single(n) == P("a{") \o n \o P("}")

Ranged(lo, hi) == P("a{") \o lo \o P(",") \o hi \o P("}")

\* Each repetition with the bounds written in it.
Singles == {[pat |-> Single(n), n |-> n] : n \in Numerals}

Rangeds ==
    {[pat |-> Ranged(lo, hi), lo |-> lo, hi |-> hi] :
        lo \in Numerals \cup {<<>>}, hi \in Numerals \cup {<<>>}}

BoundPatterns == {c.pat : c \in Singles} \cup {c.pat : c \in Rangeds}

\* An alternation of n arms, each the one character a.
Arms(n) == [i \in 1..(2 * n - 1) |-> IF i % 2 = 1 THEN 97 ELSE 124]

\* Alternations around the limit of the steps table, alone and inside a
\* subsequence.
ArmCounts == {2, 3, FUZZ_MAX_STEPS - 1, FUZZ_MAX_STEPS, FUZZ_MAX_STEPS + 1, FUZZ_MAX_STEPS + 2}

Alternations ==
    {[pat |-> Arms(n), n |-> n] : n \in ArmCounts}
        \cup {[pat |-> P("x(") \o Arms(n) \o P(")y"), n |-> n] : n \in ArmCounts}

ArmPatterns == {c.pat : c \in Alternations}

\* The characters an escape handles on their own: n, r, t, b, f, v, a, s
\* and x.
Handled == {110, 114, 116, 98, 102, 118, 97, 115, 120}

\* Every other printable character behind a backslash, as the whole pattern.
Escapes == {[pat |-> <<92, x>>, x |-> x] : x \in (33..126) \ Handled}

EscapePatterns == {c.pat : c \in Escapes}

\* The hex digit of a value below 16, in lower and in upper case.
HexDigits(d) == IF d < 10 THEN {48 + d} ELSE {87 + d, 55 + d}

\* The hexadecimal escape of every byte, as the whole pattern, with the
\* value it spells.
HexEscapes ==
    UNION {{[pat |-> <<92, 120, hi, lo>>, v |-> v] :
                hi \in HexDigits(v \div 16), lo \in HexDigits(v % 16)} : v \in 0..255}

\* Hexadecimal escapes that lack one of the two digits.
BadHexEscapes ==
    {P("\\x"), P("\\x4"), P("\\x4g"), P("\\xg4"), P("\\x 41"), P("\\x4(a)"), P("a\\x"),
     P("\\x-1"), P("\\x+1")}

HexPatterns == {c.pat : c \in HexEscapes} \cup BadHexEscapes

\* Alternations closed by a following block, by the end of a subsequence
\* and by the end of the pattern, and some with separators in a row.
ClosedPatterns ==
    {P("a|bc"), P("a|b|cd"), P("a|b[c-d]"), P("a|b(cd)"), P("a|b|c(de)f"), P("a|b\\n"),
     P("a|b(c){2}"), P("a|(bc)d"), P("(ab)|c(d)"),
     P("(a|b)"), P("x(a|b|c)y"), P("(a|b){2}"), P("(a|(bc))d"), P("((a)|b)"),
     P("a|b"), P("a|b|c"), P("a|[b-c]"), P("a|(bc)"), P("(a)|(b)"), P("a|(bc)|d"), P("xy|z"),
     P("a||b"), P("a|b||c"), P("(a||b)"), P("a|||b")}

\* Ranges, plain and negated, up to the most fragments the array holds and
\* one more.
RangePatterns ==
    {P("[a-c]"), P("[^a-c]"), P("[a,c,e]"), P("[c,a,b]"), P("[^b,a]"), P("[^c-d,a-b]"),
     P("[x-z,a-c,m]"), P("[^x-z,a-c,m]"), P("[^\\d0]"), P("[^\\d1]"), P("[^\\d255]"),
     P("[^\\d0-\\d255]"), P("[^\\d0-\\d254]"), P("[^\\d1-\\d255]"),
     P("[\\d1,\\d3,\\d5,\\d7,\\d9,\\d11,\\d13,\\d15,\\d17,\\d19,\\d21,\\d23,\\d25,\\d27,\\d29,\\d31]"),
     P("[\\d1,\\d3,\\d5,\\d7,\\d9,\\d11,\\d13,\\d15,\\d17,\\d19,\\d21,\\d23,\\d25,\\d27,\\d29,\\d31,\\d33]"),
     P("[^\\d1,\\d3,\\d5,\\d7,\\d9,\\d11,\\d13,\\d15,\\d17,\\d19,\\d21,\\d23,\\d25,\\d27,\\d29]"),
     P("[^\\d1,\\d3,\\d5,\\d7,\\d9,\\d11,\\d13,\\d15,\\d17,\\d19,\\d21,\\d23,\\d25,\\d27,\\d29,\\d31]"),
     P("[^\\d0,\\d2,\\d4,\\d6,\\d8,\\d10,\\d12,\\d14,\\d16,\\d18,\\d20,\\d22,\\d24,\\d26,\\d28,\\d30]"),
     P("[^\\d225,\\d227,\\d229,\\d231,\\d233,\\d235,\\d237,\\d239,\\d241,\\d243,\\d245,\\d247,\\d249,\\d251,\\d253,\\d255]"),
     P("[^\\d2,\\d4,\\d6,\\d8,\\d10,\\d12,\\d14,\\d16,\\d18,\\d20,\\d22,\\d24,\\d26,\\d28,\\d30,\\d32]")}

InitSyntax ==
    /\ pattern \in NestPatterns \cup LabelPatterns \cup BodyRefPatterns \cup ZeroPatterns
                    \cup Misplaced \cup BoundPatterns \cup ArmPatterns \cup EscapePatterns
                    \cup HexPatterns \cup ClosedPatterns \cup RangePatterns
    /\ Fresh
    /\ api = NoApi
    /\ prng = NoPrng

SpecSyntax == InitSyntax /\ [][Compile]_vars

\* How deep the parentheses of the pattern go: the most that are open at
\* one place of it.
DepthOf(pat) ==
    LET open[i \in 0..Len(pat)] ==
            IF i = 0 THEN 0
            ELSE open[i - 1] + (IF pat[i] = 40 THEN 1 ELSE IF pat[i] = 41 THEN -1 ELSE 0)
    IN  Max(0, CHOOSE k \in {open[i] : i \in 0..Len(pat)} :
                   \A i \in 0..Len(pat) : open[i] <= k)

\* C17: of the patterns that are valid but for their nesting, those with
\* subsequences nested 1 to 5 deep compile, and those nested 6 deep or
\* deeper are rejected with an error fragment.
C17_NestingLimit ==
    (pattern \in NestPatterns /\ nf.status # "none") =>
        IF DepthOf(pattern) <= 5
        THEN nf.status = "ok"
        ELSE nf.status = "err" /\ nf.p_err # <<>>

\* The Reference blocks of a factory.
References(ff) == {i \in 1..Len(ff.node_seq) : ff.node_seq[i].type = "reference"}

\* The labels under which the factory has sub-factories.
Declared(ff) == {ff.subcontexts[i].label : i \in 1..Len(ff.subcontexts)}

\* C18: every Reference block of a factory PatternFactory__new returns, be
\* it a paste, a reshuffle or a length, names a sub-factory declared with
\* just that label; with a reference of any of the three kinds to a name
\* that is not declared, no factory is returned.
C18_ReferencesDeclared ==
    nf.status = "ok" =>
        \A i \in References(nf.factory) : nf.factory.node_seq[i].ref.label \in Declared(nf.factory)

\* One subsequence declared under the first label and another under the
\* second.
DeclareBoth(l1, l2) == P("(a)<$") \o l1 \o P(">(a)<$") \o l2 \o P(">")

\* The labels 0Z and 19 both declared, and what may follow.
BothDeclared == {DeclareBoth(P("0Z"), P("19")) \o t : t \in {<<>>} \cup LabelTokens}

\* C19: two labels with the same djb2 hash, as 0Z and 19, can both be
\* declared, and every reference resolves to the sub-generator whose label
\* is the name referred to, never to another label with the same hash.
C19_ResolvedByLabel ==
    /\ (pattern \in BothDeclared /\ nf.status # "none") => nf.status # "err"
    /\ nf.status = "ok" =>
           \A i \in References(nf.factory) :
               LET label == nf.factory.node_seq[i].ref.label
                   c == __Generator__subcontext_for_label(nf.factory, label)
               IN  c # NULL => nf.factory.subcontexts[c].label = label

RECURSIVE ParseUntil(_, _, _)
\* The loop over the pattern as far as position q: the parser as it stands
\* when its cursor has come to q.
ParseUntil(pat, st, q) ==
    IF st.status # "run" \/ st.p >= q THEN st
    ELSE ParseUntil(pat, Advance(AfterSwitch(ParseBlock(pat, [st EXCEPT !.new = NULL]))), q)

\* The parentheses open at position i of the pattern, the character at i
\* counted.
OpenAt(pat, i) ==
    LET open[k \in 0..i] ==
            IF k = 0 THEN 0
            ELSE open[k - 1] + (IF pat[k] = 40 THEN 1 ELSE IF pat[k] = 41 THEN -1 ELSE 0)
    IN  open[i]

\* The opening parenthesis that the closing one at position c matches.
MatchOpen(pat, c) ==
    LET opens == {o \in 1..(c - 1) : pat[o] = 40 /\ OpenAt(pat, o - 1) = OpenAt(pat, c)}
    IN  IF opens = {} THEN NULL ELSE CHOOSE o \in opens : \A x \in opens : x <= o

\* The places of the pattern where a declaration begins.
Declarations(pat) == {q \in 1..(Len(pat) - 1) : pat[q] = 60 /\ pat[q + 1] = 36}

\* The name a declaration at q gives.
NameAt(pat, q) ==
    LET end == CHOOSE e \in (q + 1)..Len(pat) : pat[e] = 62 /\ \A x \in (q + 1)..(e - 1) : pat[x] # 62
    IN  SubSeq(pat, q + 2, end - 1)

\* What the declaration at q of the pattern does to the parser that has
\* come to it at nesting level 0 right after the subsequence opened at o:
\* the list is again what it was before the subsequence, the blocks left on
\* it are as they were, what has left it are the sub block, the blocks of
\* the body and the ret block, and the sub-factory compiled from the text of
\* the body is attached last under the name.
DeclarationTakes(pat, o, q) ==
    LET first == ParseState(__ParserContext__new, 0)
        start == ParseUntil(pat, first, o)
        before == ParseUntil(pat, first, q)
        after == AfterSwitch(ParseBlock(pat, [before EXCEPT !.new = NULL]))
        kept == Len(start.seq)
        body == SubSeq(pat, o + 1, q - 2)
        name == NameAt(pat, q)
    IN  (before.status = "run" /\ after.status = "run") =>
            /\ start.p = o /\ before.p = q
            /\ Len(before.seq) >= kept + 2
            /\ before.ctx.heap[before.seq[kept + 1]].type = "sub"
            /\ before.ctx.heap[before.seq[Len(before.seq)]].type = "ret"
            /\ after.seq = SubSeq(before.seq, 1, kept)
            /\ after.seq = start.seq
            /\ \A i \in 1..kept : after.ctx.heap[after.seq[i]] = before.ctx.heap[before.seq[i]]
            /\ after.ctx.subcontexts =
                   Append(before.ctx.subcontexts,
                          [hash |-> djb2(name), label |-> name,
                           p_gen_ctx |-> [type |-> small,
                                          p_factory |-> PatternFactory__new(body).factory]])

\* Whether the declaration at q stands at nesting level 0 right after a
\* subsequence.
AfterSubsequence(pat, q) == q > 1 /\ pat[q - 1] = 41 /\ OpenAt(pat, q - 1) = 0

\* The subsequence of the pattern that holds position q and lies in no other.
Around(pat, q) ==
    {o \in 1..(q - 1) : /\ pat[o] = 40 /\ OpenAt(pat, o - 1) = 0
                        /\ \A x \in o..(q - 1) : OpenAt(pat, x) > 0}

RECURSIVE Reach(_, _, _)
\* The parser as it stands when it comes to the block at position q, in the
\* call of __parse_pattern that meets that block: the call on the pattern
\* itself, or a call on the inside of a subsequence. Where the parse ends
\* before that, the parser as it ended.
Reach(pat, st, q) ==
    IF Around(pat, q) = {}
    THEN [pat |-> pat, st |-> ParseUntil(pat, st, q), q |-> q]
    ELSE LET o == CHOOSE x \in Around(pat, q) : TRUE
             s == [ParseUntil(pat, st, o) EXCEPT !.new = NULL]
             sk == SeekClose(pat, o + 1, s.nest + 1, s.nest)
             p_sub == SubSeq(pat, o + 1, sk.i - 2)
             b == SubOpen(NewTracked(s, SubBlock(s.nest)), s.nest, p_sub)
         IN  IF s.status # "run" \/ s.p # o
             THEN [pat |-> pat, st |-> s, q |-> q]
             ELSE IF (s.nest + 1) >= FUZZ_MAX_NESTING_COMPLEXITY \/ sk.err \/ sk.pres > s.nest
             THEN [pat |-> pat, st |-> ParseSub(pat, s), q |-> q]
             ELSE Reach(p_sub, ParseState(b.ctx, b.ctx.nest_level), q - o)

\* The parser that has come to the declaration at q is turned away by it.
DeclarationRejected(pat, q) ==
    LET r == Reach(pat, ParseState(__ParserContext__new, 0), q)
    IN  (r.st.status = "run" /\ r.st.p = r.q) =>
            AfterSwitch(ParseBlock(r.pat, [r.st EXCEPT !.new = NULL])).status = "err"

C21_BodyReferences ==
    (pattern \in BodyRefPatterns /\ nf.status # "none") =>
        /\ nf.status = "ok"
        /\ \A s \in 1..Len(nf.factory.subcontexts) :
               LET sub == nf.factory.subcontexts[s].p_gen_ctx.p_factory
               IN  \A i \in References(sub) :
                       __Generator__subcontext_for_label(sub, sub.node_seq[i].ref.label) # NULL

\* C22: every output of the pattern (ab|cd) is the two bytes ab or the two
\* bytes cd.
C22_WholeArms ==
    (pattern = P("(ab|cd)") /\ ev.kind = "return") => ev.bytes \in {P("ab"), P("cd")}

\* C23: the bounded draw returns a value between its bounds, both counted,
\* and so the bound itself when the two are equal.
C23_WithinBounds ==
    \A c \in 1..prng.made :
        \A k \in 1..Len(prng.drawn[c]) :
            /\ prng.asked[c][k][1] <= prng.drawn[c][k]
            /\ prng.drawn[c][k] <= prng.asked[c][k][2]

(***************************************************************************)
(* Length references on their own: a pattern that is one length reference  *)
(* is compiled, and its block writes the length of a cached output.        *)
(***************************************************************************)
MaxCached == 3

LenFormats == {P("g"), P("l"), P("b"), P("d"), P("x"), P("X"), P("o")}

\* Widths the parser takes for the format, the raw ones kept to 3 bytes.
LenWidths(f) ==
    IF f \in {P("g"), P("l")} THEN {P("1"), P("2"), P("3")} ELSE {P("1"), P("2"), P("7")}

\* What is added to the length: nothing, and values that do and do not fit
\* the fields.
LenAdds == {<<>>, P("+9"), P("+300"), P("+10000000")}

LengthPatterns ==
    {P("<#") \o f \o w \o a \o P(":X>") : f \in LenFormats, w \in UNION {LenWidths(g) : g \in LenFormats},
                                          a \in LenAdds} \
    {P("<#") \o f \o P("7") \o a \o P(":X>") : f \in {P("g"), P("l")}, a \in LenAdds}

\* The fuzz_str_t of an output of n bytes.
Cached(n) == [length |-> n, output |-> Repeat(<<97>>, n), freed |-> FALSE]

InitFormat ==
    /\ pattern \in LengthPatterns
    /\ nf = [status |-> "none", factory |-> NoFactory, p_err |-> <<>>]
    /\ pc = "new"
    /\ gctx = <<>>
    /\ strs \in {<<Cached(n)>> : n \in 0..MaxCached}
    /\ frames = <<>>
    /\ retval = NULL
    /\ calls = 0
    /\ ev = NoEv
    /\ hist = NoHist
    /\ api = NoApi
    /\ prng = NoPrng

\* case ref_count of Generator__get_next, for one iteration of the block
\* and the cached output: the length is formatted and written.
WriteLength ==
    /\ pc = "contexts"
    /\ LET blk == nf.factory.node_seq[1]
       IN  ev' = [NoEv EXCEPT !.kind = "count", !.blk = blk, !.iters = 1,
                              !.bytes = FormatLen(blk.ref.lenopts, strs[1].length)]
    /\ pc' = "written"
    /\ UNCHANGED <<prng, api, pattern, nf, gctx, strs, frames, retval, calls, hist>>

NextFormat ==
    \/ Compile
    \/ WriteLength

SpecFormat == InitFormat /\ [][NextFormat]_vars

\* How many values one unit of a field of the format can take.
Radix(type) ==
    CASE type = "binary" -> 2
      [] type = "decimal" -> 10
      [] type \in {"hexadecimal", "hex_upper"} -> 16
      [] type = "octal" -> 8
      [] OTHER -> 256

\* What one unit of the field stands for: a byte for itself, a character
\* for its digit.
UnitValue(type, u) == IF type \in {"raw_big", "raw_little"} THEN u ELSE HexVal(u)

\* The number a field stands for, its most significant unit first unless
\* the format is the little-endian one.
FieldValue(type, field) ==
    LET n == Len(field)
        unit(j) == IF type = "raw_little" THEN field[n + 1 - j] ELSE field[j]
        v[j \in 0..n] == IF j = 0 THEN 0 ELSE v[j - 1] * Radix(type) + UnitValue(type, unit(j))
    IN  v[n]

\* C24: with a fixed width w > 0 the field of a length reference is w units
\* wide and stands for the length plus the added value, modulo the capacity
\* of the field: 2^w, 10^w, 16^w, 8^w or 256^w by the format.
C24_FixedWidth ==
    (pc = "written" /\ ev.blk.ref.lenopts.width > 0) =>
        LET o == ev.blk.ref.lenopts
        IN  /\ Len(ev.bytes) = o.width
            /\ FieldValue(o.type, ev.bytes) = (strs[1].length + o.add) % (Radix(o.type) ^ o.width)

\* The bytes in the opposite order.
Reversed(s) == [j \in 1..Len(s) |-> s[Len(s) + 1 - j]]

\* The w bytes of the value v, the most significant first.
BigEndian(v, w) == [j \in 1..w |-> (v \div (256 ^ (w - j))) % 256]

\* C25: the format g writes the bytes of the value most significant first
\* and the format l writes them least significant first, so the two write
\* different fields for a value whose bytes are not their own reverse.
C25_ByteOrder ==
    (pc = "written" /\ ev.blk.ref.lenopts.type \in {"raw_big", "raw_little"}) =>
        LET o == ev.blk.ref.lenopts
            n == strs[1].length
            be == BigEndian((n + o.add) % (256 ^ o.width), o.width)
        IN  /\ o.type = "raw_big" => ev.bytes = be
            /\ o.type = "raw_little" => ev.bytes = Reversed(be)
            /\ be # Reversed(be) =>
                   FormatLen([o EXCEPT !.type = "raw_big"], n)
                       # FormatLen([o EXCEPT !.type = "raw_little"], n)

\* C27: Nanofuzz__new returns no context for a pattern that is malformed
\* in its structure: it returns NULL, and no worker has been started.
C27_NoContext ==
    (pattern \in DeadPatterns /\ api.main # "new") =>
        /\ api.main = "null"
        /\ nf.status = "err" /\ nf.p_err # <<>>
        /\ api.worker = "none"

\* Nanofuzz__new has returned NULL for a repetition statement whose closing
\* brace is escaped.
C27_Witness ==
    /\ pattern = P("a{3,5\\}}bcd")
    /\ api.main = "null"

\* C26: a repetition of {0} or {0,0} on a block compiles, and the block it
\* is on then has a count of zero whatever is drawn.
C26_ZeroCount ==
    (pattern \in ZeroPatterns /\ nf.status # "none") =>
        /\ nf.status = "ok"
        /\ \E i \in 1..Len(nf.factory.node_seq) :
               Iters(nf.factory.node_seq[i].count) = {0}

\* C28: a repetition statement that follows nothing, follows another
\* repetition or comes right behind the separator of an alternation is
\* rejected; it is not put on a block before the separator.
C28_MisplacedRepetition ==
    (pattern \in Misplaced /\ nf.status # "none") => nf.status = "err"

\* C29: a bound written in a repetition counts for its decimal value, and
\* a repetition with a bound above 65535 is rejected: the count of the
\* block of a factory returned is made of the values written.
C29_DecimalBounds ==
    nf.status # "none" =>
        /\ \A c \in Singles :
               pattern = c.pat =>
                   /\ DecimalOf(c.n) > 65535 => nf.status = "err"
                   /\ nf.status = "ok" =>
                          LET count == nf.factory.node_seq[1].count
                          IN  count.single > 0 /\ count.base = DecimalOf(c.n)
        /\ \A c \in Rangeds :
               pattern = c.pat =>
                   /\ (DecimalOf(c.lo) > 65535 \/ DecimalOf(c.hi) > 65535) => nf.status = "err"
                   /\ nf.status = "ok" =>
                          LET count == nf.factory.node_seq[1].count
                          IN  /\ count.single = 0
                              /\ count.base = DecimalOf(c.lo)
                              /\ count.high = IF c.hi = <<>> THEN 65535 ELSE DecimalOf(c.hi)

\* C30: An alternation of up to 32 arms compiles and one of more than 32
\* arms is rejected; the parser never writes an entry outside the steps
\* table of a branch root, and the table of a factory returned holds at
\* most FUZZ_MAX_STEPS arms.
C30_StepsTable ==
    nf.status # "none" =>
        \A c \in Alternations :
            pattern = c.pat =>
                /\ nf.status # "ub"
                /\ c.n <= FUZZ_MAX_STEPS => nf.status = "ok"
                /\ c.n > FUZZ_MAX_STEPS => nf.status = "err"
                /\ nf.status = "ok" =>
                       \A i \in 1..Len(nf.factory.node_seq) :
                           nf.factory.node_seq[i].type = "branch_root" =>
                               nf.factory.node_seq[i].amount + 1 <= FUZZ_MAX_STEPS

\* C31: an escape of a character that is not one of n, r, t, b, f, v, a, s,
\* x compiles to a string block of that one character, written once, an
\* upper-case letter included.
C31_LiteralEscape ==
    nf.status # "none" =>
        \A c \in Escapes :
            pattern = c.pat =>
                /\ nf.status = "ok"
                /\ LET blk == nf.factory.node_seq[1]
                   IN  /\ blk.type = "string"
                       /\ blk.str = <<c.x>>
                       /\ Iters(blk.count) = {1}

\* C32: the hexadecimal escape of a byte compiles to a string block that
\* emits that one byte each time it is written, the byte 0x00 included,
\* and a hexadecimal escape without its two digits is rejected.
C32_HexEscape ==
    nf.status # "none" =>
        /\ \A c \in HexEscapes :
               pattern = c.pat =>
                   /\ nf.status = "ok"
                   /\ LET blk == nf.factory.node_seq[1]
                      IN  /\ blk.type = "string"
                          /\ blk.str = <<c.v>>
                          /\ Iters(blk.count) = {1}
        /\ pattern \in BadHexEscapes => nf.status = "err"

\* C33: while the body of a zero-count subsequence is skipped, no block of
\* the body advances the PRNG, a nested sub or ret included: up to the ret
\* that ends the nullification, no step under it calls the PRNG.
C33_SkippingDrawsNothing ==
    (ev.nullified /\ ~ev.cleared) => ~ev.drew

\* A call of Generator__get_next runs its loop without interruption: a
\* step of the generator that can be taken is taken.
RunPatterns ==
    { P("(ab){0,2}x"), P("((a){0,1}b){2}"), P("a|b|c"), P("a|b(cd)"), P("[a-c]{1,2}"),
      P("(a|b)<$X><@X>-<%X><@X>"), P("(a{1,9})<$X>q<@X>{2}") }

InitRun ==
    /\ pattern \in RunPatterns
    /\ Fresh
    /\ api = NoApi
    /\ prng = NoPrng

\* The steps of the loop of Generator__get_next.
Step ==
    \/ SkipNullified
    \/ ExecString
    \/ ExecRange
    \/ ExecSub
    \/ ExecRet
    \/ ExecBranchRoot
    \/ ExecBranchJmp
    \/ ExecReference
    \/ AfterRegen
    \/ AfterShuffle
    \/ Return

SpecRun == InitRun /\ [][Next]_vars /\ WF_vars(Step)

\* C34: every call of Generator__get_next on a factory that
\* PatternFactory__new returned comes to its end, with the output or with
\* the overflow failure; on the way a ret sends the pip back no more often
\* than its counter asks for and a branch block moves the pip forward.
C34_Terminates ==
    /\ [](ev.kind = "ret" /\ ev.loops =>
              hist.runs[ev.ctx][ev.target].runs <= hist.runs[ev.ctx][ev.target].want)
    /\ [](ev.kind \in {"root", "jmp"} => ev.next > ev.pip)
    /\ (frames # <<>>) ~> (frames = <<>>)

\* C35: in a factory returned every jmp block has a forward offset that is
\* not zero and is the distance from the jmp to the first block after its
\* alternation, however the alternation was closed.
C35_JmpOffsets ==
    (pattern \in ClosedPatterns /\ nf.status = "ok") =>
        LET seq == nf.factory.node_seq
        IN  \A j \in 0..(Len(seq) - 1) :
                seq[j + 1].type = "branch_jmp" =>
                    /\ seq[j + 1].num # 0
                    /\ j + seq[j + 1].num = AfterAlternation(seq, OwnerRoot(seq, j))

\* C36: a range block of a factory returned holds between 1 and
\* FUZZ_MAX_PATTERN_RANGE_FRAGMENTS sub-ranges, each with base <= high <=
\* 255, and no two of them overlap; so too when the range is negated.
C36_RangeFragments ==
    (pattern \in RangePatterns /\ nf.status = "ok") =>
        \A i \in 1..Len(nf.factory.node_seq) :
            nf.factory.node_seq[i].type = "range" =>
                LET range == nf.factory.node_seq[i].range
                    f == range.fragments
                IN  /\ range.amount >= 1
                    /\ range.amount <= FUZZ_MAX_PATTERN_RANGE_FRAGMENTS
                    /\ range.amount = Len(f)
                    /\ \A k \in 1..Len(f) : 0 <= f[k].base /\ f[k].base <= f[k].high /\ f[k].high <= 255
                    /\ \A k, l \in 1..Len(f) :
                           k # l => (f[k].high < f[l].base \/ f[l].high < f[k].base)

\* The index of the slot the pointer p of the stack's storage names.
SlotIndex(p) == p - SlotAddr(0)

\* C37: with the worker and one consumer running in any order, the count of
\* the stack stays within 0 .. size, a push writes a slot within the stack,
\* and a pop reads a slot within the stack that holds a pushed output.
C37_StackInBounds ==
    api.main \notin {"none", "new", "null"} =>
        /\ api.count \in 0..api.size
        /\ api.last = "push" =>
               /\ InStack(api.count - 1, api.size)
               /\ api.slots[api.count] # NULL
        /\ (api.last = "pop" /\ api.results # <<>>) =>
               LET p == api.results[Len(api.results)]
               IN  p # NULL =>
                       /\ SlotIndex(p) >= 0
                       /\ InStack(SlotIndex(p), api.size)
                       /\ api.slots[SlotIndex(p) + 1] # NULL

\* C38: during a generation on a factory returned the nest level is at
\* least 1 when a ret is executed, so that it never goes below 0, it is
\* below FUZZ_MAX_NESTING_COMPLEXITY when a sub is executed, so that the
\* counter taken lies in the counter array, and it is 0 when the end block
\* is reached.
C38_NestLevel ==
    /\ (ev.kind \in {"ret", "ub"} /\ ev.blk.type = "ret") => ev.nest >= 1
    /\ (ev.kind \in {"sub", "ub"} /\ ev.blk.type = "sub") =>
           ev.nest < FUZZ_MAX_NESTING_COMPLEXITY
    /\ ev.kind = "return" => gctx[ev.ctx].nest_level = 0

\* The worker thread is scheduled, and so is the caller inside
\* Nanofuzz__new: it leaves its wait once it finds the stack full.
SpecApiNew ==
    /\ InitApi
    /\ [][NextApi]_vars
    /\ WF_vars(Nanofuzz__thread_refresh_context)
    /\ WF_vars(Nanofuzz__output_stack_push)
    /\ WF_vars(Nanofuzz__new_return)

\* C39: for a pattern that compiles, in both modes, Nanofuzz__new comes
\* back from its wait for the worker, also when the worker has stopped on a
\* generation that failed, and when it returns the context the stack is
\* filled to its size.
C39_NewReturns ==
    /\ [](api.main = "wait" => <>(api.main # "wait"))
    /\ [][(api.main = "wait" /\ api'.main = "ready") => api'.count = api'.size]_vars

====
